---- MODULE Spec2Model ----
(***************************************************************************)
(* ts-rate-limiter: the decision engine (RateLimiter) over the in-process  *)
(* store (MemoryStorage).  Three admission policies: fixed window, sliding *)
(* window and token bucket.  Time is the millisecond clock Date.now().     *)
(*                                                                         *)
(* JavaScript numbers are IEEE-754 binary64.  Counters and timestamps stay *)
(* far below 2^53 and are modelled as integers.  The token-bucket          *)
(* arithmetic (refillRate, tokens) uses fractions, so it is modelled with  *)
(* binary64 values: a 53-bit significand held as a multi-digit natural and *)
(* a binary exponent, every operation rounded to nearest, ties to even.    *)
(***************************************************************************)
EXTENDS Integers, Sequences, FiniteSets, TLC

(***************************************************************************)
(* Multi-digit naturals: little-endian sequences of digits in base 2^15,   *)
(* without leading zero digits; <<>> is zero.                              *)
(***************************************************************************)
DigitBits == 15

Base == 32768

RECURSIVE Pow2(_)
Pow2(n) == IF n = 0 THEN 1 ELSE 2 * Pow2(n - 1)

RECURSIVE BNorm(_)
BNorm(s) ==
    IF s = <<>> THEN <<>>
    ELSE IF s[Len(s)] = 0 THEN BNorm(SubSeq(s, 1, Len(s) - 1))
    ELSE s

RECURSIVE BFromInt(_)
BFromInt(n) == IF n = 0 THEN <<>> ELSE <<n % Base>> \o BFromInt(n \div Base)

RECURSIVE BToInt(_)
BToInt(s) == IF s = <<>> THEN 0 ELSE s[1] + Base * BToInt(Tail(s))

BDigit(s, i) == IF i >= 1 /\ i <= Len(s) THEN s[i] ELSE 0

RECURSIVE BAddC(_, _, _)
BAddC(a, b, c) ==
    IF a = <<>> /\ b = <<>> THEN (IF c = 0 THEN <<>> ELSE <<c>>)
    ELSE LET x == BDigit(a, 1) + BDigit(b, 1) + c
         IN  <<x % Base>> \o BAddC(IF a = <<>> THEN <<>> ELSE Tail(a),
                                   IF b = <<>> THEN <<>> ELSE Tail(b),
                                   x \div Base)

BAdd(a, b) == BAddC(a, b, 0)

\* a - b for a >= b
RECURSIVE BSubC(_, _, _)
BSubC(a, b, c) ==
    IF a = <<>> THEN <<>>
    ELSE LET x == a[1] - BDigit(b, 1) - c
         IN  <<IF x < 0 THEN x + Base ELSE x>>
                 \o BSubC(Tail(a), IF b = <<>> THEN <<>> ELSE Tail(b),
                          IF x < 0 THEN 1 ELSE 0)

BSub(a, b) == BNorm(BSubC(a, b, 0))

\* -1, 0, 1 as a < b, a = b, a > b (both without leading zeros)
RECURSIVE BCmpAt(_, _, _)
BCmpAt(a, b, i) ==
    IF i = 0 THEN 0
    ELSE IF a[i] < b[i] THEN -1
    ELSE IF a[i] > b[i] THEN 1
    ELSE BCmpAt(a, b, i - 1)

BCmp(a, b) ==
    IF Len(a) < Len(b) THEN -1
    ELSE IF Len(a) > Len(b) THEN 1
    ELSE BCmpAt(a, b, Len(a))

RECURSIVE BMulSmallC(_, _, _)
BMulSmallC(a, d, c) ==
    IF a = <<>> THEN (IF c = 0 THEN <<>> ELSE <<c>>)
    ELSE LET x == a[1] * d + c
         IN  <<x % Base>> \o BMulSmallC(Tail(a), d, x \div Base)

BMulSmall(a, d) == IF d = 0 THEN <<>> ELSE BMulSmallC(a, d, 0)

RECURSIVE BMul(_, _)
BMul(a, b) ==
    IF a = <<>> \/ b = <<>> THEN <<>>
    ELSE BAdd(BMulSmall(a, b[1]),
              LET r == BMul(a, Tail(b)) IN IF r = <<>> THEN <<>> ELSE <<0>> \o r)

\* a * 2^n
BShl(a, n) ==
    IF a = <<>> THEN <<>>
    ELSE LET whole == n \div DigitBits
             part  == BMulSmall(a, Pow2(n % DigitBits))
         IN  [i \in 1..whole |-> 0] \o part

\* floor(a / 2^n)
BShr(a, n) ==
    LET whole == n \div DigitBits
        r     == n % DigitBits
        d     == IF whole >= Len(a) THEN <<>> ELSE SubSeq(a, whole + 1, Len(a))
    IN  BNorm([i \in 1..Len(d) |->
                  (d[i] \div Pow2(r)) + (BDigit(d, i + 1) % Pow2(r)) * Pow2(DigitBits - r)])

RECURSIVE SmallBitLen(_)
SmallBitLen(d) == IF d = 0 THEN 0 ELSE 1 + SmallBitLen(d \div 2)

BBitLen(a) == IF a = <<>> THEN 0 ELSE DigitBits * (Len(a) - 1) + SmallBitLen(a[Len(a)])

\* bit i (from 0) of a
BBit(a, i) == (BDigit(a, (i \div DigitBits) + 1) \div Pow2(i % DigitBits)) % 2

BIsOdd(a) == a # <<>> /\ a[1] % 2 = 1

\* long division, one bit of a at a time from the top, in runs of DigitBits
\* bits: <<quotient, remainder>>.  The tests on q2 and r2 make each step
\* compute its operands before the next.
RECURSIVE BDivBits(_, _, _, _, _, _)
BDivBits(a, b, i, stop, q, r) ==
    IF i < stop THEN <<q, r>>
    ELSE LET r2 == BAdd(BShl(r, 1), IF BBit(a, i) = 1 THEN <<1>> ELSE <<>>)
             q2 == BShl(q, 1)
         IN  IF Len(q2) >= 0 /\ BCmp(r2, b) >= 0
                THEN BDivBits(a, b, i - 1, stop, BAdd(q2, <<1>>), BSub(r2, b))
                ELSE BDivBits(a, b, i - 1, stop, q2, r2)

RECURSIVE BDivRuns(_, _, _, _)
BDivRuns(a, b, i, qr) ==
    IF i < 0 THEN qr
    ELSE LET stop == IF i - DigitBits + 1 < 0 THEN 0 ELSE i - DigitBits + 1
             run  == BDivBits(a, b, i, stop, qr[1], qr[2])
         IN  IF Len(run) = 2 THEN BDivRuns(a, b, stop - 1, run) ELSE run

BDivMod(a, b) == BDivRuns(a, b, BBitLen(a) - 1, <<<<>>, <<>>>>)

(***************************************************************************)
(* binary64 values >= 0: [m |-> significand, e |-> exponent], the value is *)
(* m * 2^e with m = 0 (and e = 0) or 2^52 <= m < 2^53.  The exponent range *)
(* of binary64 is never left by the quantities of this program.            *)
(***************************************************************************)
SigBits == 53

FZero == [m |-> <<>>, e |-> 0]

\* round the exact value m * 2^e to nearest, ties to even
FRound(m, e) ==
    LET len == BBitLen(m)
    IN  IF m = <<>> THEN FZero
        ELSE IF len <= SigBits THEN [m |-> BShl(m, SigBits - len), e |-> e - (SigBits - len)]
        ELSE LET s      == len - SigBits
                 q      == BShr(m, s)
                 rest   == BSub(m, BShl(q, s))
                 half   == BShl(<<1>>, s - 1)
                 c      == BCmp(rest, half)
                 up     == c > 0 \/ (c = 0 /\ BIsOdd(q))
                 q2     == IF up THEN BAdd(q, <<1>>) ELSE q
             IN  IF BBitLen(q2) > SigBits
                    THEN [m |-> BShr(q2, 1), e |-> e + s + 1]
                    ELSE [m |-> q2, e |-> e + s]

FFromInt(n) == FRound(BFromInt(n), 0)

FMul(a, b) == FRound(BMul(a.m, b.m), a.e + b.e)

\* the quotient is taken to 64 extra bits; a non-zero remainder is kept as a
\* sticky lowest bit so that the rounding sees the exact value's position
FDiv(a, b) ==
    IF a.m = <<>> THEN FZero
    ELSE LET qr == BDivMod(BShl(a.m, 64), b.m)
             q2 == BAdd(BShl(qr[1], 1), IF qr[2] = <<>> THEN <<>> ELSE <<1>>)
         IN  FRound(q2, a.e - b.e - 65)

FMinExp(a, b) == IF a.m = <<>> THEN b.e ELSE IF b.m = <<>> THEN a.e
                 ELSE IF a.e < b.e THEN a.e ELSE b.e

\* the significand of a at the (smaller) exponent e
FAlign(a, e) == IF a.m = <<>> THEN <<>> ELSE BShl(a.m, a.e - e)

FAdd(a, b) ==
    LET e == FMinExp(a, b) IN FRound(BAdd(FAlign(a, e), FAlign(b, e)), e)

FCmp(a, b) ==
    LET e == FMinExp(a, b) IN BCmp(FAlign(a, e), FAlign(b, e))

\* a - b for a >= b
FSub(a, b) ==
    LET e == FMinExp(a, b) IN FRound(BSub(FAlign(a, e), FAlign(b, e)), e)

FMin(a, b) == IF FCmp(a, b) <= 0 THEN a ELSE b

\* Math.floor and Math.ceil, for values whose integer part is a small integer
FFloor(a) ==
    IF a.m = <<>> THEN 0
    ELSE IF a.e >= 0 THEN BToInt(BShl(a.m, a.e))
    ELSE BToInt(BShr(a.m, 0 - a.e))

FIsInt(a) ==
    a.m = <<>> \/ a.e >= 0 \/ BShl(BShr(a.m, 0 - a.e), 0 - a.e) = a.m

FCeil(a) == IF FIsInt(a) THEN FFloor(a) ELSE FFloor(a) + 1

FOne == FFromInt(1)

(***************************************************************************)
(* Bounds of the model and constants of the program.                       *)
(***************************************************************************)
Keys == {"k1", "k2"}

MaxRequestsBound == 2

MaxCalls == 3

MaxTicks == 2

MaxInFlight == 2

MaxPauses == 1

MaxBurst == 4

\* MemoryStorage.cleanExpired keeps the timestamps of the last hour
RetentionMs == 3600000

\* defaultConfig.windowMs, taken when options.windowMs is 0 or missing
DefaultWindowMs == 60000

Algorithms == {"fixed-window", "sliding-window", "token-bucket"}

\* window sizes offered to the constructor: short windows; for the sliding
\* window also one longer than the retention of the timestamp log; for the
\* token bucket also 13, where the binary64 product 13 * refillRate of a
\* whole window is not a whole number of tokens
WindowChoices(algorithm) ==
    IF algorithm = "sliding-window" THEN {2, RetentionMs + 2}
    ELSE IF algorithm = "token-bucket" THEN {3, 13}
    ELSE {2, 3}

VARIABLES
    cfg,            \* the RateLimiter's fields set by its constructor
    now,            \* Date.now()
    records,        \* MemoryStorage.records: key -> {count, resetTime}
    timestamps,     \* MemoryStorage.timestamps: key -> list of request times
    tokenBuckets,   \* RateLimiter.tokenBuckets: key -> {tokens, lastRefill}
    cleanupTimer,   \* MemoryStorage.cleanupTimer is set and still running
    clients,        \* the identifiers that the callers' requests carry
    last,           \* what the last operation returned to its caller
    hits,           \* history: per key, the decided calls since the key was fresh
    fresh,          \* history: per key, "never" used, "reset" after use, "cleared" with
                    \* all buckets, "used" by calls only, "mixed" with a resetAll()
    ticks,          \* history: number of clock advances so far
    calls,          \* the calls that were started: where each is suspended, what it holds
    redis,          \* the Redis server: db maps a key to its counter and the time its
                    \* expiry falls, mode tells which commands the client gets through
    peer            \* a second RateLimiter built with the same options over the same
                    \* storage: its tokenBuckets, and history: what its calls were told

vars == <<cfg, now, records, timestamps, tokenBuckets, cleanupTimer, clients, last, hits, fresh, ticks,
         calls, redis, peer>>

(***************************************************************************)
(* Maps (JavaScript Map): functions whose domain is the set of keys held.  *)
(***************************************************************************)
EmptyMap == [k \in {} |-> 0]

\* a Map.set that drops every other key
MapSetAlone(m, key, v) == [k \in {key} |-> v]

MapSet(m, key, v) == [k \in (DOMAIN m) \cup {key} |-> IF k = key THEN v ELSE m[k]]

MapDelete(m, key) == [k \in (DOMAIN m) \ {key} |-> m[k]]

Max(a, b) == IF a >= b THEN a ELSE b

(***************************************************************************)
(* RateLimiter constructor                                                 *)
(***************************************************************************)
\* refillRate: this.maxRequests / (this.windowMs / 1000) / 1000, tokens per ms
RefillRate(maxRequests, windowMs) ==
    FDiv(FDiv(FFromInt(maxRequests), FDiv(FFromInt(windowMs), FFromInt(1000))),
         FFromInt(1000))

NewRateLimiter(options) ==
    LET windowMs == IF options.windowMs # 0 THEN options.windowMs ELSE DefaultWindowMs
    IN  [ windowMs           |-> windowMs,
          maxRequests        |-> options.maxRequests,
          algorithm          |-> options.algorithm,
          draftMode          |-> options.draftMode,
          skipFailedRequests |-> options.skipFailedRequests,
          skipFn             |-> options.skip,            \* a skip predicate is set
          customKeyGenerator |-> options.keyGenerator,    \* else defaultKeyGenerator
          capacity           |-> options.maxRequests,
          refillRate         |-> IF options.algorithm = "token-bucket"
                                    THEN RefillRate(options.maxRequests, windowMs)
                                    ELSE FZero,
          \* Math.ceil(1 / refillRate) of checkTokenBucket: refillRate never
          \* changes, so the value is computed once
          msPerToken         |-> IF options.algorithm = "token-bucket" /\ options.maxRequests # 0
                                    THEN FCeil(FDiv(FOne, RefillRate(options.maxRequests, windowMs)))
                                    ELSE 0 ]

(***************************************************************************)
(* MemoryStorage                                                           *)
(***************************************************************************)
\* increment() that never finds the stored window expired
MemoryIncrementNoExpiry(recs, tss, key, windowMs, t) ==
    IF key \notin DOMAIN recs
    THEN LET newRecord == [count |-> 1, resetTime |-> t + windowMs]
         IN  [ records    |-> MapSet(recs, key, newRecord),
               timestamps |-> MapSet(tss, key, <<t>>),
               result     |-> newRecord ]
    ELSE LET record == [recs[key] EXCEPT !.count = @ + 1]
             stamps == IF key \in DOMAIN tss THEN tss[key] ELSE <<>>
         IN  [ records    |-> MapSet(recs, key, record),
               timestamps |-> MapSet(tss, key, Append(stamps, t)),
               result     |-> record ]

\* increment() that stores a new record whatever is stored
MemoryIncrementAnew(recs, tss, key, windowMs, t) ==
    LET newRecord == [count |-> 1, resetTime |-> t + windowMs]
    IN  [ records    |-> MapSet(recs, key, newRecord),
          timestamps |-> MapSet(tss, key, <<t>>),
          result     |-> newRecord ]

\* increment(key, windowMs) at time t: the maps afterwards and the record returned
MemoryIncrement(recs, tss, key, windowMs, t) ==
    IF key \notin DOMAIN recs \/ t > recs[key].resetTime
    THEN LET newRecord == [count |-> 1, resetTime |-> t + windowMs]
         IN  [ records    |-> MapSet(recs, key, newRecord),
               timestamps |-> MapSet(tss, key, <<t>>),
               result     |-> newRecord ]
    ELSE LET record == [recs[key] EXCEPT !.count = @ + 1]
             stamps == IF key \in DOMAIN tss THEN tss[key] ELSE <<>>
         IN  [ records    |-> MapSet(recs, key, record),
               timestamps |-> MapSet(tss, key, Append(stamps, t)),
               result     |-> record ]

\* getSlidingWindowCount(key, windowMs) at time t
MemorySlidingWindowCount(tss, key, windowMs, t) ==
    LET stamps      == IF key \in DOMAIN tss THEN tss[key] ELSE <<>>
        windowStart == t - windowMs
        InWindow(time) == time > windowStart
    IN  Len(SelectSeq(stamps, InWindow))

\* cleanExpired() at time t: the records map afterwards
\* a sweep that also deletes the records whose resetTime is the present
CleanExpiredRecordsAtReset(recs, t) ==
    [k \in {x \in DOMAIN recs : t < recs[x].resetTime} |-> recs[k]]

CleanExpiredRecords(recs, t) ==
    [k \in {x \in DOMAIN recs : ~(t > recs[x].resetTime)} |-> recs[k]]

\* cleanExpired() at time t: the timestamps map afterwards
CleanExpiredTimestamps(tss, t) ==
    LET maxAge == t - RetentionMs
        Young(time) == time > maxAge
        filtered(k) == SelectSeq(tss[k], Young)
    IN  [k \in {x \in DOMAIN tss : Len(filtered(x)) # 0} |-> filtered(k)]

(***************************************************************************)
(* RateLimiter: the three algorithms.  Each takes the engine's fields c,   *)
(* the three maps, the key and the time of the call, and gives the maps    *)
(* afterwards and the RateLimitResult returned.                            *)
(***************************************************************************)
CheckFixedWindow(c, recs, tss, bks, key, t) ==
    LET inc       == MemoryIncrement(recs, tss, key, c.windowMs, t)
        count     == inc.result.count
        resetTime == inc.result.resetTime
        remaining == Max(0, resetTime - t)
        allowed   == IF c.draftMode THEN TRUE ELSE count <= c.maxRequests
    IN  [ records      |-> inc.records,
          timestamps   |-> inc.timestamps,
          tokenBuckets |-> bks,
          result       |-> [allowed |-> allowed, current |-> count, limit |-> c.maxRequests,
                            remaining |-> remaining, resetTime |-> resetTime] ]

CheckSlidingWindow(c, recs, tss, bks, key, t) ==
    LET inc       == MemoryIncrement(recs, tss, key, c.windowMs, t)
        count     == MemorySlidingWindowCount(inc.timestamps, key, c.windowMs, t)
        resetTime == t + c.windowMs
        allowed   == IF c.draftMode THEN TRUE ELSE count <= c.maxRequests
    IN  [ records      |-> inc.records,
          timestamps   |-> inc.timestamps,
          tokenBuckets |-> bks,
          result       |-> [allowed |-> allowed, current |-> count, limit |-> c.maxRequests,
                            remaining |-> c.windowMs, resetTime |-> resetTime] ]

\* a refill without Math.min: the tokens are added whatever the capacity
RefillUncapped(c, bucket, t) ==
    LET timeElapsed == t - bucket.lastRefill
        tokensToAdd == FMul(FFromInt(timeElapsed), c.refillRate)
    IN  IF FCmp(tokensToAdd, FZero) > 0
           THEN [tokens     |-> FAdd(bucket.tokens, tokensToAdd),
                 lastRefill |-> t]
           ELSE bucket

\* the bucket after "Refill tokens based on time elapsed"
Refill(c, bucket, t) ==
    LET timeElapsed == t - bucket.lastRefill
        tokensToAdd == FMul(FFromInt(timeElapsed), c.refillRate)
    IN  IF FCmp(tokensToAdd, FZero) > 0
           THEN [tokens     |-> FMin(FAdd(bucket.tokens, tokensToAdd), FFromInt(c.capacity)),
                 lastRefill |-> t]
           ELSE bucket

\* a bucket that no call takes a token from
ConsumeTokenNever(c, bucket, allowed) == bucket

\* "Consume a token if allowed"
ConsumeToken(c, bucket, allowed) ==
    IF allowed /\ ~c.draftMode
       THEN [bucket EXCEPT !.tokens = FSub(@, FOne)]
       ELSE bucket

\* a result whose current is the number of whole tokens left
TokenBucketResultRemaining(c, bucket, allowed, t) ==
    LET msUntilNextToken ==
            IF FCmp(bucket.tokens, FFromInt(c.capacity)) >= 0
               THEN c.windowMs
               ELSE c.msPerToken
    IN  [allowed   |-> allowed,
         current   |-> FFloor(bucket.tokens),
         limit     |-> c.capacity,
         remaining |-> msUntilNextToken,
         resetTime |-> t + msUntilNextToken]

\* the RateLimitResult of checkTokenBucket for the bucket it leaves
TokenBucketResult(c, bucket, allowed, t) ==
    LET msUntilNextToken ==
            IF FCmp(bucket.tokens, FFromInt(c.capacity)) >= 0
               THEN c.windowMs
               ELSE c.msPerToken
    IN  [allowed   |-> allowed,
         current   |-> c.capacity - FFloor(bucket.tokens),
         limit     |-> c.capacity,
         remaining |-> msUntilNextToken,
         resetTime |-> t + msUntilNextToken]

\* checkTokenBucket from "Check if we have enough tokens" on
TokenBucketDecide(c, recs, tss, bks, key, t, refilled) ==
    LET allowed == IF c.draftMode THEN TRUE ELSE FCmp(refilled.tokens, FOne) >= 0
        bucket  == ConsumeToken(c, refilled, allowed)
    IN  [ records      |-> recs,
          timestamps   |-> tss,
          tokenBuckets |-> MapSet(bks, key, bucket),
          result       |-> TokenBucketResult(c, bucket, allowed, t) ]

\* a checkTokenBucket that always takes its fallback to the fixed window
CheckTokenBucketFallback(c, recs, tss, bks, key, t) ==
    CheckFixedWindow(c, recs, tss, bks, key, t)

CheckTokenBucket(c, recs, tss, bks, key, t) ==
    IF c.algorithm # "token-bucket" THEN CheckFixedWindow(c, recs, tss, bks, key, t)
    ELSE LET created == IF key \in DOMAIN bks THEN bks[key]
                        ELSE [tokens |-> FFromInt(c.capacity), lastRefill |-> t]
         IN  TokenBucketDecide(c, recs, tss, bks, key, t, Refill(c, created, t))

\* "Use appropriate algorithm" of check() and consume(); MemoryStorage has
\* getSlidingWindowCount
Dispatch(c, recs, tss, bks, key, t) ==
    IF c.algorithm = "sliding-window" THEN CheckSlidingWindow(c, recs, tss, bks, key, t)
    ELSE IF c.algorithm = "token-bucket" THEN CheckTokenBucket(c, recs, tss, bks, key, t)
    ELSE CheckFixedWindow(c, recs, tss, bks, key, t)

CreateAllowedResult(c, t) ==
    [allowed |-> TRUE, current |-> 0, limit |-> c.maxRequests,
     remaining |-> c.windowMs, resetTime |-> t + c.windowMs]

NoResult == [allowed |-> FALSE, current |-> 0, limit |-> 0, remaining |-> 0, resetTime |-> 0]

\* what check() gives when the algorithm it ran gave d
Ended(d, outcome) ==
    [records |-> d.records, timestamps |-> d.timestamps, tokenBuckets |-> d.tokenBuckets,
     outcome |-> outcome, result |-> d.result]

\* check() without the short-circuit on maxRequests === 0
CheckRequestNoZero(c, recs, tss, bks, req, t) ==
    LET unchanged(outcome, result) ==
            [records |-> recs, timestamps |-> tss, tokenBuckets |-> bks,
             outcome |-> outcome, result |-> result]
    IN  IF c.skipFn /\ req.skip THEN unchanged("skipped", CreateAllowedResult(c, t))
        ELSE IF req.keyError
            THEN IF c.skipFailedRequests
                    THEN unchanged("failopen", CreateAllowedResult(c, t))
                    ELSE unchanged("thrown", NoResult)
        ELSE Ended(Dispatch(c, recs, tss, bks, req.key, t), "decided")

\* check() that rethrows a keyGenerator failure whatever skipFailedRequests is
CheckRequestRethrows(c, recs, tss, bks, req, t) ==
    LET unchanged(outcome, result) ==
            [records |-> recs, timestamps |-> tss, tokenBuckets |-> bks,
             outcome |-> outcome, result |-> result]
    IN  IF c.skipFn /\ req.skip THEN unchanged("skipped", CreateAllowedResult(c, t))
        ELSE IF c.maxRequests = 0
            THEN unchanged("zero", [allowed |-> FALSE, current |-> 1, limit |-> 0,
                                    remaining |-> c.windowMs, resetTime |-> t + c.windowMs])
        ELSE IF req.keyError THEN unchanged("thrown", NoResult)
        ELSE Ended(Dispatch(c, recs, tss, bks, req.key, t), "decided")

\* check() that never asks the skip predicate
CheckRequestNoSkip(c, recs, tss, bks, req, t) ==
    LET unchanged(outcome, result) ==
            [records |-> recs, timestamps |-> tss, tokenBuckets |-> bks,
             outcome |-> outcome, result |-> result]
    IN  IF c.maxRequests = 0
            THEN unchanged("zero", [allowed |-> FALSE, current |-> 1, limit |-> 0,
                                    remaining |-> c.windowMs, resetTime |-> t + c.windowMs])
        ELSE IF req.keyError
            THEN IF c.skipFailedRequests
                    THEN unchanged("failopen", CreateAllowedResult(c, t))
                    ELSE unchanged("thrown", NoResult)
        ELSE Ended(Dispatch(c, recs, tss, bks, req.key, t), "decided")

\* check(request); outcome tells how the call ended
CheckRequest(c, recs, tss, bks, req, t) ==
    LET unchanged(outcome, result) ==
            [records |-> recs, timestamps |-> tss, tokenBuckets |-> bks,
             outcome |-> outcome, result |-> result]
    IN  IF c.skipFn /\ req.skip THEN unchanged("skipped", CreateAllowedResult(c, t))
        ELSE IF c.maxRequests = 0
            THEN unchanged("zero", [allowed |-> FALSE, current |-> 1, limit |-> 0,
                                    remaining |-> c.windowMs, resetTime |-> t + c.windowMs])
        ELSE IF req.keyError
            THEN IF c.skipFailedRequests
                    THEN unchanged("failopen", CreateAllowedResult(c, t))
                    ELSE unchanged("thrown", NoResult)
        ELSE Ended(Dispatch(c, recs, tss, bks, req.key, t), "decided")

(***************************************************************************)
(* The state machine                                                       *)
(***************************************************************************)
Options ==
    { o \in [ algorithm: Algorithms, maxRequests: 0..MaxRequestsBound,
              windowMs: UNION {WindowChoices(a) : a \in Algorithms},
              draftMode: BOOLEAN, skipFailedRequests: {FALSE}, skip: {FALSE},
              keyGenerator: {FALSE}, enableAutoCleanup: {TRUE} ] :
        o.windowMs \in WindowChoices(o.algorithm) }

\* a request is what the engine's functions make of it: the key that
\* keyGenerator derives, whether the skip predicate (if set) accepts it, and
\* whether keyGenerator throws on it (defaultKeyGenerator never does)
Requests ==
    [ key: clients,
      skip: IF cfg.skipFn THEN BOOLEAN ELSE {FALSE},
      keyError: IF cfg.customKeyGenerator THEN BOOLEAN ELSE {FALSE} ]

\* clock advances offered: one millisecond, one window, and the retention
\* time when the window is longer than it
TickSteps == {1, cfg.windowMs} \cup (IF cfg.windowMs > RetentionMs THEN {RetentionMs} ELSE {})

NoCall == [op |-> "none", key |-> "k1", at |-> 0, outcome |-> "none", was |-> "never",
           result |-> NoResult, count |-> 0]

\* the calls that can be in flight together
CallIds == 1..MaxInFlight

\* a call that has not been made: pc is where the call is suspended, record
\* the window record it holds once that object is no longer the stored one
\* (live tells that it still is), at and ttl the locals of increment()
IdleCall == [pc |-> "idle", op |-> "none", key |-> "k1",
             req |-> [key |-> "k1", skip |-> FALSE, keyError |-> FALSE],
             live |-> FALSE, record |-> [count |-> 0, resetTime |-> 0],
             at |-> 0, count |-> 0, ttl |-> 0,
             outcome |-> "none", result |-> NoResult]

\* no Redis server is used
NoRedis == [db |-> EmptyMap, zsets |-> EmptyMap, mode |-> "ok", isExternalClient |-> FALSE,
            slidingWindowEnabled |-> FALSE, closed |-> FALSE]

\* the state after new RateLimiter(options), for the options and callers given
\* the second engine when it was never used
NoPeer == [tokenBuckets |-> EmptyMap, hits |-> [k \in Keys |-> <<>>]]

InitWith(optionSet, keySet) ==
    /\ \E options \in optionSet :
          /\ cfg = NewRateLimiter(options)
          /\ cleanupTimer = options.enableAutoCleanup
    /\ clients = keySet
    /\ now = 0
    /\ records = EmptyMap
    /\ timestamps = EmptyMap
    /\ tokenBuckets = EmptyMap
    /\ last = NoCall
    /\ hits = [k \in Keys |-> <<>>]
    /\ fresh = [k \in Keys |-> "never"]
    /\ ticks = 0
    /\ calls = [i \in CallIds |-> IdleCall]
    /\ redis = NoRedis
    /\ peer = NoPeer

OptionsOf(algorithms) == {o \in Options : o.algorithm \in algorithms}

Init == InitWith(Options, {"k1"})

InitFixed == InitWith(OptionsOf({"fixed-window"}), {"k1"})

InitSliding == InitWith(OptionsOf({"sliding-window"}), {"k1"})

InitBucket == InitWith(OptionsOf({"token-bucket"}), {"k1"})

InitWindow == InitWith(OptionsOf({"fixed-window", "sliding-window"}), {"k1"})

\* history kept for a call that ran an algorithm on key
Decided(key, result) ==
    /\ hits' = [hits EXCEPT ![key] = Append(@, [t |-> now, allowed |-> result.allowed])]
    /\ fresh' = [fresh EXCEPT ![key] = IF @ = "mixed" THEN "mixed" ELSE "used"]

\* history when every token bucket is dropped: under token-bucket a used key
\* is then as new
BucketsCleared ==
    IF cfg.algorithm = "token-bucket"
       THEN /\ hits' = [k \in Keys |-> <<>>]
            /\ fresh' = [k \in Keys |-> IF fresh[k] \in {"used", "mixed"} THEN "cleared"
                                        ELSE fresh[k]]
       ELSE UNCHANGED <<hits, fresh>>

\* history of resetAll(): under the window algorithms the keys in use have
\* then seen more than calls
AllReset ==
    IF cfg.algorithm = "token-bucket" THEN BucketsCleared
    ELSE /\ fresh' = [k \in Keys |-> IF fresh[k] = "used" THEN "mixed" ELSE fresh[k]]
         /\ UNCHANGED hits

\* await limiter.check(request), the key having had fewer than bound calls
CheckUpTo(req, bound) ==
    /\ Len(hits[req.key]) < bound
    /\ \E out \in {CheckRequest(cfg, records, timestamps, tokenBuckets, req, now)} :
           /\ records' = out.records
           /\ timestamps' = out.timestamps
           /\ tokenBuckets' = out.tokenBuckets
           /\ last' = [op |-> "check", key |-> req.key, at |-> now, outcome |-> out.outcome,
                       was |-> fresh[req.key], result |-> out.result, count |-> 0]
           /\ IF out.outcome = "decided"
                 THEN Decided(req.key, out.result)
                 ELSE UNCHANGED <<hits, fresh>>
    /\ UNCHANGED <<cfg, peer, calls, redis, now, cleanupTimer, clients, ticks>>

\* await limiter.check(request)
Check(req) == CheckUpTo(req, MaxCalls)

\* await limiter.consume(key)
Consume(key) ==
    /\ Len(hits[key]) < MaxCalls
    /\ \E out \in {Dispatch(cfg, records, timestamps, tokenBuckets, key, now)} :
           /\ records' = out.records
           /\ timestamps' = out.timestamps
           /\ tokenBuckets' = out.tokenBuckets
           /\ last' = [op |-> "consume", key |-> key, at |-> now, outcome |-> "decided",
                       was |-> fresh[key], result |-> out.result, count |-> 0]
           /\ Decided(key, out.result)
    /\ UNCHANGED <<cfg, peer, calls, redis, now, cleanupTimer, clients, ticks>>

\* reset(key) that leaves the key's token bucket in place
ResetStorageOnly(key) ==
    /\ records' = MapDelete(records, key)
    /\ timestamps' = MapDelete(timestamps, key)
    /\ tokenBuckets' = tokenBuckets
    /\ last' = [NoCall EXCEPT !.op = "reset", !.key = key]
    /\ hits' = [hits EXCEPT ![key] = <<>>]
    /\ fresh' = [fresh EXCEPT ![key] = IF @ = "never" THEN "never" ELSE "reset"]
    /\ UNCHANGED <<cfg, peer, calls, redis, now, cleanupTimer, clients, ticks>>

\* await limiter.reset(key): MemoryStorage.reset, then the bucket
Reset(key) ==
    /\ records' = MapDelete(records, key)
    /\ timestamps' = MapDelete(timestamps, key)
    /\ tokenBuckets' = IF cfg.algorithm = "token-bucket"
                          THEN MapDelete(tokenBuckets, key) ELSE tokenBuckets
    /\ last' = [NoCall EXCEPT !.op = "reset", !.key = key]
    /\ hits' = [hits EXCEPT ![key] = <<>>]
    /\ fresh' = [fresh EXCEPT ![key] = IF @ = "never" THEN "never" ELSE "reset"]
    /\ UNCHANGED <<cfg, peer, calls, redis, now, cleanupTimer, clients, ticks>>

\* await limiter.resetAll(): clears the buckets under token-bucket, then
\* storage.cleanExpired()
ResetAll ==
    /\ tokenBuckets' = IF cfg.algorithm = "token-bucket" THEN EmptyMap ELSE tokenBuckets
    /\ records' = CleanExpiredRecords(records, now)
    /\ timestamps' = CleanExpiredTimestamps(timestamps, now)
    /\ last' = [NoCall EXCEPT !.op = "resetAll"]
    /\ AllReset
    /\ UNCHANGED <<cfg, peer, calls, redis, now, cleanupTimer, clients, ticks>>

\* the setInterval callback of MemoryStorage: cleanExpired()
CleanupTimer ==
    /\ cleanupTimer
    /\ records' = CleanExpiredRecords(records, now)
    /\ timestamps' = CleanExpiredTimestamps(timestamps, now)
    /\ UNCHANGED <<cfg, peer, calls, redis, now, tokenBuckets, cleanupTimer, clients, last, hits, fresh, ticks>>

\* limiter.dispose(): storage.dispose() clears the interval; the buckets go
Dispose ==
    /\ cleanupTimer' = FALSE
    /\ tokenBuckets' = EmptyMap
    /\ last' = [NoCall EXCEPT !.op = "dispose"]
    /\ BucketsCleared
    /\ UNCHANGED <<cfg, peer, calls, redis, now, records, timestamps, clients, ticks>>

\* await storage.getSlidingWindowCount(key, windowMs) on the engine's storage
GetSlidingWindowCount(key) ==
    /\ last' = [NoCall EXCEPT !.op = "count", !.key = key, !.at = now,
                              !.count = MemorySlidingWindowCount(timestamps, key, cfg.windowMs, now)]
    /\ UNCHANGED <<cfg, peer, calls, redis, now, records, timestamps, tokenBuckets, cleanupTimer, clients, hits, fresh, ticks>>

\* the clock advances
Tick(d) ==
    /\ ticks < MaxTicks
    /\ now' = now + d
    /\ ticks' = ticks + 1
    /\ UNCHANGED <<cfg, peer, calls, redis, records, timestamps, tokenBuckets, cleanupTimer, clients, last, hits, fresh>>

Next ==
    \/ \E req \in Requests : Check(req)
    \/ \E key \in clients : Consume(key)
    \/ \E key \in clients : Reset(key)
    \/ ResetAll
    \/ CleanupTimer
    \/ Dispose
    \/ \E key \in clients : GetSlidingWindowCount(key)
    \/ \E d \in TickSteps : Tick(d)

Spec == Init /\ [][Next]_vars

SpecFixed == InitFixed /\ [][Next]_vars

SpecSliding == InitSliding /\ [][Next]_vars

SpecBucket == InitBucket /\ [][Next]_vars

SpecWindow == InitWindow /\ [][Next]_vars

(***************************************************************************)
(* Vocabulary of the properties                                            *)
(***************************************************************************)
WindowAlgorithms == {"fixed-window", "sliding-window"}

\* the last operation was a check() or consume() that ran an algorithm
LastDecided == last.op \in {"check", "consume"} /\ last.outcome = "decided"

\* the last operation was a check() that ran an algorithm
LastChecked == last.op = "check" /\ last.outcome = "decided"

\* the calls of the last operation's key since the key was fresh; after a
\* decided call the last of them is that call
LastHits == hits[last.key]

\* since the last operation's key was fresh, check() and consume() are all
\* that was called
OnlyCalls == fresh[last.key] = "used"

\* this step is a check() or consume() on key that ran an algorithm
CallStep(key) == Len(hits'[key]) = Len(hits[key]) + 1

\* the calls of h made in the interval (from, to]
RECURSIVE CountIn(_, _, _, _)
CountIn(h, from, to, allowedOnly) ==
    IF h = <<>> THEN 0
    ELSE (IF Head(h).t > from /\ Head(h).t <= to /\ (Head(h).allowed \/ ~allowedOnly)
             THEN 1 ELSE 0)
         + CountIn(Tail(h), from, to, allowedOnly)

\* C1: under fixed-window and sliding-window on MemoryStorage, non-draft, the
\* i-th call on a fresh key, i <= maxRequests, made before the resetTime of
\* the window that the first call opened, is allowed and reports current = i.
C1_WithinLimit ==
    (/\ LastChecked
     /\ OnlyCalls
     /\ cfg.algorithm \in WindowAlgorithms
     /\ ~cfg.draftMode
     /\ Len(LastHits) <= cfg.maxRequests
     /\ last.at < LastHits[1].t + cfg.windowMs)
    => (last.result.allowed /\ last.result.current = Len(LastHits))

\* C2: under fixed-window and sliding-window, non-draft, maxRequests >= 1, a
\* call on a key after maxRequests calls were counted in the same window is
\* denied, and call number maxRequests + 1 reports current = maxRequests + 1.
\* The window is the one the first call on the fresh key opened: it lasts up
\* to and including its resetTime under fixed-window, and up to its resetTime
\* under sliding-window.
C2_OverLimit ==
    (/\ LastChecked
     /\ OnlyCalls
     /\ cfg.algorithm \in WindowAlgorithms
     /\ ~cfg.draftMode
     /\ cfg.maxRequests >= 1
     /\ Len(LastHits) > cfg.maxRequests
     /\ IF cfg.algorithm = "fixed-window"
           THEN last.at <= LastHits[1].t + cfg.windowMs
           ELSE last.at < LastHits[1].t + cfg.windowMs)
    => (/\ ~last.result.allowed
        /\ Len(LastHits) = cfg.maxRequests + 1 => last.result.current = cfg.maxRequests + 1)

\* C3: fixed-window on MemoryStorage, maxRequests >= 1: a check() for a key
\* whose stored resetTime has passed returns allowed = true, current = 1 and
\* resetTime = now + windowMs, and the stored record is replaced by
\* {count: 1, resetTime: now + windowMs}, whatever the previous count was.
C3_WindowRollover ==
    [][\A key \in Keys :
          (/\ CallStep(key)
           /\ last'.op = "check"
           /\ cfg.algorithm = "fixed-window"
           /\ cfg.maxRequests >= 1
           /\ key \in DOMAIN records
           /\ now > records[key].resetTime)
          => (/\ last'.result.allowed
              /\ last'.result.current = 1
              /\ last'.result.resetTime = now + cfg.windowMs
              /\ records'[key] = [count |-> 1, resetTime |-> now + cfg.windowMs])]_vars

\* a check() found a record of an elapsed window that had counted past the limit
C3_Witness ==
    /\ LastChecked
    /\ cfg.algorithm = "fixed-window"
    /\ ~cfg.draftMode
    /\ Len(LastHits) >= 2
    /\ ~LastHits[Len(LastHits) - 1].allowed
    /\ last.at > LastHits[1].t + cfg.windowMs
    /\ last.result.current = 1

\* C4: sliding-window on MemoryStorage, non-draft: for every key and every
\* time t, at most maxRequests calls with timestamps in (t - windowMs, t] were
\* answered allowed = true.  (It is enough to take for t the times of the
\* allowed calls; the calls are those since the key was last reset.  Stated
\* for the windows that the retention of the timestamp log covers, so that
\* no cleanExpired() sweep is involved.)
C4_NoBoundaryBurst ==
    (cfg.algorithm = "sliding-window" /\ ~cfg.draftMode /\ cfg.windowMs <= RetentionMs)
    => \A key \in Keys : \A i \in 1..Len(hits[key]) :
          CountIn(hits[key], hits[key][i].t - cfg.windowMs, hits[key][i].t, TRUE)
             <= cfg.maxRequests

\* C5: MemoryStorage.getSlidingWindowCount(key, windowMs) at time t returns
\* the number of increment(key, windowMs) calls for the key since its last
\* reset whose timestamps lie in (t - windowMs, t].  (Under the window
\* algorithms every call that ran the algorithm made exactly one increment.
\* Stated for the windows that the retention of the timestamp log covers, so
\* that no cleanExpired() sweep is involved.)
C5_SlidingCount ==
    (last.op = "count" /\ cfg.algorithm \in WindowAlgorithms /\ cfg.windowMs <= RetentionMs)
    => last.count = CountIn(hits[last.key], last.at - cfg.windowMs, last.at, FALSE)

\* every call of the last operation's key since it was fresh was made at
\* the time of the last operation
SameInstant == \A i \in 1..Len(LastHits) : LastHits[i].t = last.at

\* the binary64 values a, b, c satisfy a + b = c exactly
FExactSum(a, b, c) ==
    LET e1 == FMinExp(a, b)
        e  == IF c.m = <<>> \/ e1 < c.e THEN e1 ELSE c.e
    IN  BAdd(FAlign(a, e), FAlign(b, e)) = FAlign(c, e)

\* the tokens that key's bucket holds at the time now, after the refill
TokensAfterRefill(key) ==
    Refill(cfg, IF key \in DOMAIN tokenBuckets THEN tokenBuckets[key]
                ELSE [tokens |-> FFromInt(cfg.capacity), lastRefill |-> now], now).tokens

\* C6 (at one instant): token-bucket, non-draft, maxRequests >= 1: of the
\* calls made on a fresh key with no time elapsing, the first maxRequests are
\* allowed and the next is denied.
C6_Burst ==
    (/\ LastChecked
     /\ cfg.algorithm = "token-bucket"
     /\ ~cfg.draftMode
     /\ cfg.maxRequests >= 1
     /\ SameInstant)
    => (/\ Len(LastHits) <= cfg.maxRequests => last.result.allowed
        /\ Len(LastHits) = cfg.maxRequests + 1 => ~last.result.allowed)

\* C6 (each call): token-bucket, non-draft: a call is allowed iff the bucket
\* holds at least 1 token after the refill; an allowed call leaves exactly one
\* token less than the refill gave, a denied call leaves what the refill gave.
C6_Consumption ==
    \A key \in Keys :
       (CallStep(key) /\ cfg.algorithm = "token-bucket" /\ ~cfg.draftMode)
       => (/\ last'.result.allowed <=> FCmp(TokensAfterRefill(key), FOne) >= 0
           /\ IF last'.result.allowed
                 THEN FExactSum(tokenBuckets'[key].tokens, FOne, TokensAfterRefill(key))
                 ELSE tokenBuckets'[key].tokens = TokensAfterRefill(key))

\* C6: both parts
C6_TokenBucket == []C6_Burst /\ [][C6_Consumption]_vars

\* the call after maxRequests calls at one instant was denied
C6_Witness ==
    /\ LastChecked
    /\ cfg.algorithm = "token-bucket"
    /\ ~cfg.draftMode
    /\ cfg.maxRequests >= 1
    /\ SameInstant
    /\ Len(LastHits) = cfg.maxRequests + 1
    /\ ~last.result.allowed

\* the number of calls of h made at the time of its first call
FirstBurst(h) == CountIn(h, h[1].t - 1, h[1].t, FALSE)

\* C7: token-bucket, non-draft, maxRequests >= 1: after C <= capacity calls on
\* a fresh key at one instant and T ms without calls, exactly
\* min(capacity, capacity - C + floor(T * maxRequests / windowMs)) consecutive
\* immediate calls are allowed: the j-th of them is allowed iff j is at most
\* that number.
C7_Refill ==
    (/\ LastChecked
     /\ cfg.algorithm = "token-bucket"
     /\ ~cfg.draftMode
     /\ cfg.maxRequests >= 1
     /\ last.at > LastHits[1].t
     /\ FirstBurst(LastHits) <= cfg.capacity
     /\ \A i \in 1..Len(LastHits) : LastHits[i].t \in {LastHits[1].t, last.at})
    => LET C == FirstBurst(LastHits)
           T == last.at - LastHits[1].t
           j == Len(LastHits) - C
           refilled == cfg.capacity - C + ((T * cfg.maxRequests) \div cfg.windowMs)
           n == IF refilled < cfg.capacity THEN refilled ELSE cfg.capacity
       IN  last.result.allowed <=> j <= n

FirstCallResult(t) ==
    CheckRequest(cfg, EmptyMap, EmptyMap, EmptyMap,
                 [key |-> last.key, skip |-> FALSE, keyError |-> FALSE], t).result

\* C9: for each algorithm, the first check() for a key after reset(key)
\* returns the same RateLimitResult as the very first check() on a never-used
\* key made at that time, whatever was called before the reset.
C9_ResetIsFresh ==
    (last.op = "check" /\ last.outcome \in {"decided", "zero"} /\ last.was = "reset")
    => last.result = FirstCallResult(last.at)

\* a check() ran an algorithm on a key that was used and then reset
C9_Witness ==
    /\ LastChecked
    /\ last.was = "reset"
    /\ last.at > 0

C11_DraftAllows ==
    (last.op = "check" /\ last.outcome # "thrown" /\ cfg.draftMode)
    => last.result.allowed

\* what the engine that differs from cfg in draftMode only does on the same
\* call from the same state
DraftTwin(key) ==
    Dispatch([cfg EXCEPT !.draftMode = ~@], records, timestamps, tokenBuckets, key, now)

\* C12: draft mode performs the real accounting, for each algorithm: a
\* check() by an engine and the same check() from the same state by the engine
\* that differs in draftMode only report the same current and resetTime and
\* leave the same records, timestamp logs and buckets (so that the same
\* sequence of calls keeps the two engines in the same state).
C12_DraftAccounting ==
    [][\A key \in Keys :
          (CallStep(key) /\ last'.op = "check")
          => (/\ DraftTwin(key).result.current = last'.result.current
              /\ DraftTwin(key).result.resetTime = last'.result.resetTime
              /\ DraftTwin(key).records = records'
              /\ DraftTwin(key).timestamps = timestamps'
              /\ DraftTwin(key).tokenBuckets = tokenBuckets')]_vars

(***************************************************************************)
(* Engines with a skip predicate, a custom keyGenerator and a failure      *)
(* policy                                                                  *)
(***************************************************************************)
\* the options of the non-draft engines with the shortest window of their algorithm
ShortOptions ==
    {x \in Options : ~x.draftMode /\ \A w \in WindowChoices(x.algorithm) : x.windowMs <= w}

\* the options of ShortOptions, given a
\* skip predicate and a custom keyGenerator (a request chooses what each of
\* them does), with skipFailedRequests on and off
PolicyOptions ==
    { [o EXCEPT !.skip = TRUE, !.keyGenerator = TRUE, !.skipFailedRequests = f] :
        o \in ShortOptions,
        f \in BOOLEAN }

InitPolicy == InitWith(PolicyOptions, {"k1"})

\* the calls that ran an algorithm and have not been reset since, all keys together
CallsMade == Cardinality({p \in Keys \X (1..MaxCalls) : p[2] <= Len(hits[p[1]])})

\* the clock advances between calls and while calls are in flight
Pause(d) ==
    /\ ticks < MaxPauses
    /\ now' = now + d
    /\ ticks' = ticks + 1
    /\ UNCHANGED <<cfg, peer, calls, redis, records, timestamps, tokenBuckets, cleanupTimer, clients,
                   last, hits, fresh>>

\* the calls made for a key and the clock, with MaxCalls bounding the calls
\* of all clients together
NextCalls ==
    \/ CallsMade < MaxCalls /\ \E req \in Requests : Check(req)
    \/ CallsMade < MaxCalls /\ \E key \in clients : Consume(key)
    \/ \E key \in clients : Reset(key)
    \/ \E d \in TickSteps : Pause(d)

SpecPolicy == InitPolicy /\ [][NextCalls]_vars

\* request req gets as far as keyGenerator in check()
ReachesKeyGenerator(req) == ~(cfg.skipFn /\ req.skip) /\ cfg.maxRequests # 0

\* C16: a check() in which keyGenerator fails returns allowed = true when
\* skipFailedRequests = true and throws the error to the caller when
\* skipFailedRequests = false; either way it leaves the records, the
\* timestamp logs and the token buckets as they were.
C16_KeyFailure ==
    [][\A req \in Requests :
          (Check(req) /\ req.keyError /\ ReachesKeyGenerator(req))
          => (/\ cfg.skipFailedRequests => (last'.outcome = "failopen" /\ last'.result.allowed)
              /\ ~cfg.skipFailedRequests => last'.outcome = "thrown"
              /\ UNCHANGED <<records, timestamps, tokenBuckets>>)]_vars

\* keyGenerator failed in a check() of a fail-open engine, for a client whose
\* key had been denied
C16_Witness ==
    /\ last.op = "check"
    /\ last.outcome = "failopen"
    /\ last.result.allowed
    /\ hits[last.key] # <<>>
    /\ ~hits[last.key][Len(hits[last.key])].allowed

\* C19: a check() whose request the skip predicate accepts returns
\* allowed = true and leaves the records, the timestamp logs and the token
\* buckets as they were, also when the key is over its limit.
C19_SkipBypasses ==
    [][\A req \in Requests :
          (Check(req) /\ cfg.skipFn /\ req.skip)
          => (/\ last'.result.allowed
              /\ UNCHANGED <<records, timestamps, tokenBuckets>>)]_vars

\* a skipped check() of a client whose key had been denied
C19_Witness ==
    /\ last.op = "check"
    /\ last.outcome = "skipped"
    /\ last.result.allowed
    /\ hits[last.key] # <<>>
    /\ ~hits[last.key][Len(hits[last.key])].allowed

(***************************************************************************)
(* Construction with a window or a ceiling that is not valid               *)
(***************************************************************************)
\* options whose windowMs may be zero or negative and whose maxRequests may
\* be negative (fixed and sliding windows; the token-bucket refill rate of
\* the model is an unsigned binary64)
AnyOptions ==
    [ algorithm: WindowAlgorithms, maxRequests: -1..MaxRequestsBound,
      windowMs: {-2, 0, 2}, draftMode: {FALSE}, skipFailedRequests: {FALSE},
      skip: {FALSE}, keyGenerator: {FALSE}, enableAutoCleanup: {TRUE} ]

InitAny == InitWith(AnyOptions, {"k1"})

SpecAny == InitAny /\ [][Next]_vars

\* C18: no RateLimiter operates with windowMs <= 0 or maxRequests < 0: an
\* engine that has answered a check() has windowMs > 0 and maxRequests >= 0.
C18_ValidConfiguration ==
    last.op = "check" => (cfg.windowMs > 0 /\ cfg.maxRequests >= 0)

(***************************************************************************)
(* Two clients                                                             *)
(***************************************************************************)
InitKeys == InitWith(ShortOptions, Keys)

SpecKeys == InitKeys /\ [][NextCalls]_vars

\* what the engine and its storage hold for key: its window record, its
\* timestamp log and its token bucket, each as the set of what is stored
StateOf(recs, tss, bks, key) ==
    << {recs[k] : k \in DOMAIN recs \cap {key}},
       {tss[k] : k \in DOMAIN tss \cap {key}},
       {bks[k] : k \in DOMAIN bks \cap {key}} >>

\* a check(), consume() or reset() for key
OperationOn(key) ==
    \/ \E req \in Requests : req.key = key /\ Check(req)
    \/ Consume(key)
    \/ Reset(key)

\* the entry of map m for key alone
Only(m, key) == [k \in DOMAIN m \cap {key} |-> m[k]]

\* a call for key gets the answer, and leaves for key the state, that it
\* would with nothing stored for any other key
C20_Decision ==
    \A key \in clients :
        \E full \in {Dispatch(cfg, records, timestamps, tokenBuckets, key, now)},
           own \in {Dispatch(cfg, Only(records, key), Only(timestamps, key),
                             Only(tokenBuckets, key), key, now)} :
            /\ full.result = own.result
            /\ StateOf(full.records, full.timestamps, full.tokenBuckets, key)
                 = StateOf(own.records, own.timestamps, own.tokenBuckets, key)

\* a check(), consume() or reset() for one key leaves what is held for every
\* other key as it was
C20_Frame ==
    \A key \in Keys : \A other \in Keys \ {key} :
        OperationOn(key)
        => StateOf(records', timestamps', tokenBuckets', other)
             = StateOf(records, timestamps, tokenBuckets, other)

\* C20: a check(), consume() or reset() for one key leaves the record, the
\* timestamp log and the token bucket of every other key as they were, and
\* the decision of a call for a key depends on nothing but what is held for
\* that key: no call for one key changes a later decision of another.
C20_KeysIndependent == []C20_Decision /\ [][C20_Frame]_vars

\* one key has just been denied while the other key, used before, is still
\* within its limit
C20_Witness ==
    /\ last.op \in {"check", "consume"}
    /\ ~last.result.allowed
    /\ \E other \in Keys \ {last.key} :
          /\ hits[other] # <<>>
          /\ Dispatch(cfg, records, timestamps, tokenBuckets, other, now).result.allowed

(***************************************************************************)
(* Calls in flight together on MemoryStorage: a call runs from one await   *)
(* to the next without interruption, and the calls resume in any order     *)
(***************************************************************************)
\* checkFixedWindow from the destructuring of the record that increment()
\* resolved with
FixedWindowResult(c, record, t) ==
    [allowed   |-> IF c.draftMode THEN TRUE ELSE record.count <= c.maxRequests,
     current   |-> record.count,
     limit     |-> c.maxRequests,
     remaining |-> Max(0, record.resetTime - t),
     resetTime |-> record.resetTime]

\* checkSlidingWindow from "const now = Date.now()" on
SlidingWindowResult(c, count, t) ==
    [allowed   |-> IF c.draftMode THEN TRUE ELSE count <= c.maxRequests,
     current   |-> count,
     limit     |-> c.maxRequests,
     remaining |-> c.windowMs,
     resetTime |-> t + c.windowMs]

\* increment(key) at this instant stores a new record object for key
Replaces(key) == key \notin DOMAIN records \/ now > records[key].resetTime

\* call i has run check() or consume() up to its next await on the storage,
\* or to its end, and out is what that made of the state. Under a window
\* algorithm the call is suspended on the promise of increment(), which holds
\* the stored record object itself; a call that held the object which
\* increment() now replaces keeps it as it was.
RunTo(i, key, out) ==
    /\ records' = out.records
    /\ timestamps' = out.timestamps
    /\ tokenBuckets' = out.tokenBuckets
    /\ calls' = [j \in CallIds |->
          IF j = i
             THEN IF out.outcome = "decided" /\ cfg.algorithm \in WindowAlgorithms
                     THEN [calls[i] EXCEPT !.pc = "incremented", !.key = key,
                                           !.live = (cfg.algorithm = "fixed-window")]
                     ELSE [calls[i] EXCEPT !.pc = "done", !.key = key,
                                           !.outcome = out.outcome, !.result = out.result]
          ELSE IF /\ calls[j].live /\ calls[j].key = key
                  /\ out.outcome = "decided" /\ Replaces(key)
                  THEN [calls[j] EXCEPT !.live = FALSE, !.record = records[key]]
                  ELSE calls[j]]

\* limiter.check(request) is called: it runs to its first await, on the skip
\* predicate or on keyGenerator
StartCheck(i, req) ==
    /\ calls[i].pc = "idle"
    /\ \A j \in CallIds : j < i => calls[j].pc # "idle"
    /\ calls' = [calls EXCEPT ![i] = [@ EXCEPT !.pc = "started", !.op = "check", !.req = req,
                                               !.key = req.key]]
    /\ UNCHANGED <<cfg, peer, redis, now, records, timestamps, tokenBuckets, cleanupTimer, clients,
                   last, hits, fresh, ticks>>

\* check() resumes with the key: it ends there, or runs into the algorithm
\* and, under a window algorithm, through increment() to the await on it
Resume(i) ==
    /\ calls[i].pc = "started"
    /\ \E out \in {CheckRequest(cfg, records, timestamps, tokenBuckets, calls[i].req, now)} :
           RunTo(i, calls[i].req.key, out)
    /\ UNCHANGED <<cfg, peer, redis, now, cleanupTimer, clients, last, hits, fresh, ticks>>

\* limiter.consume(key) is called: it runs into the algorithm at once
StartConsume(i, key) ==
    /\ calls[i].pc = "idle"
    /\ \A j \in CallIds : j < i => calls[j].pc # "idle"
    /\ \E out \in {Ended(Dispatch(cfg, records, timestamps, tokenBuckets, key, now), "decided")} :
           RunTo(i, key, out)
    /\ UNCHANGED <<cfg, peer, redis, now, cleanupTimer, clients, last, hits, fresh, ticks>>

\* checkSlidingWindow resumes after increment(): getSlidingWindowCount(key)
\* runs and the call awaits its promise
Count(i) ==
    /\ calls[i].pc = "incremented"
    /\ cfg.algorithm = "sliding-window"
    /\ calls' = [calls EXCEPT ![i] =
          [@ EXCEPT !.pc = "counted",
                    !.count = MemorySlidingWindowCount(timestamps, calls[i].key, cfg.windowMs, now)]]
    /\ UNCHANGED <<cfg, peer, redis, now, records, timestamps, tokenBuckets, cleanupTimer, clients,
                   last, hits, fresh, ticks>>

\* the record object that call i holds, as it is now
Held(i) ==
    IF calls[i].live /\ calls[i].key \in DOMAIN records THEN records[calls[i].key]
    ELSE calls[i].record

\* the algorithm resumes after its last await and returns its result
Finish(i) ==
    /\ \/ calls[i].pc = "incremented" /\ cfg.algorithm = "fixed-window"
       \/ calls[i].pc = "counted"
    /\ calls' = [calls EXCEPT ![i] =
          [@ EXCEPT !.pc = "done", !.outcome = "decided", !.live = FALSE, !.record = Held(i),
                    !.result = IF cfg.algorithm = "fixed-window"
                                  THEN FixedWindowResult(cfg, Held(i), now)
                                  ELSE SlidingWindowResult(cfg, calls[i].count, now)]]
    /\ UNCHANGED <<cfg, peer, redis, now, records, timestamps, tokenBuckets, cleanupTimer, clients,
                   last, hits, fresh, ticks>>

NextConcurrent ==
    \/ \E i \in CallIds : \E req \in Requests : StartCheck(i, req)
    \/ \E i \in CallIds : \E key \in clients : StartConsume(i, key)
    \/ \E i \in CallIds : Resume(i)
    \/ \E i \in CallIds : Count(i)
    \/ \E i \in CallIds : Finish(i)
    \/ \E d \in TickSteps : Pause(d)

\* the engines of ShortOptions that use the storage
InitConcurrent == InitWith({o \in ShortOptions : o.algorithm \in WindowAlgorithms}, {"k1"})

SpecConcurrent == InitConcurrent /\ [][NextConcurrent]_vars

Completed == {i \in CallIds : calls[i].pc = "done"}

InFlight == {i \in CallIds : calls[i].pc \notin {"idle", "done"}}

\* every call so far has returned, all of them were made for key, and the
\* engine is less than one window old
AllWithinOneWindow(key) ==
    /\ InFlight = {}
    /\ Completed # {}
    /\ \A i \in Completed : calls[i].key = key
    /\ now < cfg.windowMs

\* C13: MemoryStorage under a window algorithm with maxRequests >= 1: when
\* the k calls made for a key, their awaits interleaved in any order, have
\* all returned within one window, the stored count is k, the next check()
\* would report current = k + 1, and if k <= maxRequests every one of the k
\* calls was allowed.
C13_NoLostIncrement ==
    \A key \in clients :
        ( /\ cfg.algorithm \in WindowAlgorithms
          /\ cfg.maxRequests >= 1
          /\ AllWithinOneWindow(key) )
        => /\ key \in DOMAIN records
           /\ records[key].count = Cardinality(Completed)
           /\ Dispatch(cfg, records, timestamps, tokenBuckets, key, now).result.current
                = Cardinality(Completed) + 1
           /\ Cardinality(Completed) <= cfg.maxRequests
                => \A i \in Completed : calls[i].result.allowed

\* every call in flight together has returned: under fixed-window each of
\* them read the count that the last increment left
C13_Witness ==
    /\ cfg.algorithm = "fixed-window"
    /\ cfg.maxRequests >= 1
    /\ AllWithinOneWindow("k1")
    /\ Completed = CallIds
    /\ \A i \in CallIds : calls[i].op = "check" /\ calls[i].result.current = MaxInFlight

(***************************************************************************)
(* RedisStorage with enableSlidingWindow = false, and the commands it      *)
(* sends. A key that holds a counter has expireAt = -1 while it has no     *)
(* expiry; the server and the clients read the same clock.                 *)
(***************************************************************************)
\* the key exists at time t
RedisLive(db, key, t) ==
    key \in DOMAIN db /\ (db[key].expireAt = -1 \/ t <= db[key].expireAt)

\* INCR done as GET and SET by a client that read the key before any other
\* client wrote it: the counter is set to 1 whatever it holds
RedisIncrFromStale(db, key, t) ==
    IF RedisLive(db, key, t)
    THEN [db |-> MapSet(db, key, [db[key] EXCEPT !.count = 1]), reply |-> 1]
    ELSE [db |-> MapSet(db, key, [count |-> 1, expireAt |-> -1]), reply |-> 1]

\* INCR key
RedisIncr(db, key, t) ==
    IF RedisLive(db, key, t)
    THEN [db |-> MapSet(db, key, [db[key] EXCEPT !.count = @ + 1]), reply |-> db[key].count + 1]
    ELSE [db |-> MapSet(db, key, [count |-> 1, expireAt |-> -1]), reply |-> 1]

\* TTL key: -2 without the key, -1 without an expiry, else the seconds left,
\* rounded
RedisTtl(db, key, t) ==
    IF ~RedisLive(db, key, t) THEN -2
    ELSE IF db[key].expireAt = -1 THEN -1
    ELSE (db[key].expireAt - t + 500) \div 1000

\* PEXPIRE key ms
RedisPexpire(db, key, ms, t) ==
    IF ~RedisLive(db, key, t) THEN db
    ELSE IF ms <= 0 THEN MapDelete(db, key)
    ELSE MapSet(db, key, [db[key] EXCEPT !.expireAt = t + ms])

\* EXPIRE key seconds
RedisExpire(db, key, seconds, t) == RedisPexpire(db, key, seconds * 1000, t)

\* a script that sets the expiry on every increment
LuaScriptExtends(db, key, window, t) ==
    LET inc == RedisIncr(db, key, t)
    IN  [db |-> RedisPexpire(inc.db, key, window, t),
         reply |-> <<inc.reply, window \div 1000>>]

\* EVAL luaScript 1 key window now: the script runs as one command; the
\* number window / 1000 is replied as an integer
LuaScript(db, key, window, t) ==
    LET inc == RedisIncr(db, key, t)
        ttl == RedisTtl(inc.db, key, t)
    IN  IF inc.reply = 1 \/ ttl < 0
           THEN [db |-> RedisPexpire(inc.db, key, window, t),
                 reply |-> <<inc.reply, window \div 1000>>]
           ELSE [db |-> inc.db, reply |-> <<inc.reply, ttl>>]

\* Math.ceil(windowMs / 1000)
CeilSeconds(windowMs) == (windowMs + 999) \div 1000

\* options of the engines given a RedisStorage that use it, with
\* skipFailedRequests on and off
RedisOptions ==
    [ algorithm: WindowAlgorithms, maxRequests: 0..MaxRequestsBound, windowMs: {1500},
      draftMode: {FALSE}, skipFailedRequests: BOOLEAN, skip: {FALSE},
      keyGenerator: {FALSE}, enableAutoCleanup: {FALSE} ]

\* what the client gets through: everything, everything but EVAL, nothing
RedisModes == {"ok", "noscript", "down"}

\* new RedisStorage(options), client telling whether options.client is given
NewRedisStorage(client, enableSlidingWindow) ==
    [isExternalClient |-> client, slidingWindowEnabled |-> enableSlidingWindow, thrown |-> ~client]

\* the state after new RateLimiter({storage: new RedisStorage(options), ...})
InitRedisStorage(optionSet, enableSlidingWindow) ==
    /\ \E options \in optionSet : cfg = NewRateLimiter(options)
    /\ \E mode \in RedisModes, client \in BOOLEAN :
          \E storage \in {NewRedisStorage(client, enableSlidingWindow)} :
              /\ ~storage.thrown
              /\ redis = [db |-> EmptyMap, zsets |-> EmptyMap, mode |-> mode,
                          isExternalClient |-> storage.isExternalClient,
                          slidingWindowEnabled |-> storage.slidingWindowEnabled,
                          closed |-> FALSE]
    /\ cleanupTimer = FALSE
    /\ clients = {"k1"}
    /\ now = 0
    /\ records = EmptyMap
    /\ timestamps = EmptyMap
    /\ tokenBuckets = EmptyMap
    /\ peer = NoPeer
    /\ last = NoCall
    /\ hits = [k \in Keys |-> <<>>]
    /\ fresh = [k \in Keys |-> "never"]
    /\ ticks = 0
    /\ calls = [i \in CallIds |-> IdleCall]

\* enableSlidingWindow left out: false
InitRedisWith(optionSet) == InitRedisStorage(optionSet, FALSE)

InitRedis == InitRedisWith(RedisOptions)

\* call i as it ends when storage.increment() has resolved with count and
\* resetTime: checkFixedWindow returns its result; checkSlidingWindow calls
\* getSlidingWindowCount, which throws as sliding window is not enabled, and
\* the promise that check() returned without awaiting it is rejected
Incremented(i, count, resetTime) ==
    IF cfg.algorithm = "sliding-window"
       THEN [calls[i] EXCEPT !.pc = "done", !.count = count, !.at = 0, !.ttl = 0,
                             !.outcome = "rejected"]
       ELSE [calls[i] EXCEPT !.pc = "done", !.count = count, !.at = 0, !.ttl = 0,
                             !.outcome = "decided",
                             !.result = FixedWindowResult(cfg, [count |-> count,
                                                                resetTime |-> resetTime], now)]

\* check() resumes with the key: it ends there, or runs the token bucket, or
\* runs into increment(), which reads the clock and sends EVAL
RedisResume(i) ==
    /\ calls[i].pc = "started"
    /\ \E out \in {CheckRequest(cfg, EmptyMap, EmptyMap, tokenBuckets, calls[i].req, now)} :
           IF out.outcome = "decided" /\ cfg.algorithm \in WindowAlgorithms
              THEN /\ calls' = [calls EXCEPT ![i] = [@ EXCEPT !.pc = "eval", !.at = now]]
                   /\ UNCHANGED tokenBuckets
              ELSE /\ calls' = [calls EXCEPT ![i] = [@ EXCEPT !.pc = "done",
                                                               !.outcome = out.outcome,
                                                               !.result = out.result]]
                   /\ tokenBuckets' = out.tokenBuckets
    /\ UNCHANGED <<cfg, peer, redis, now, records, timestamps, cleanupTimer, clients, last, hits,
                   fresh, ticks>>

\* the EVAL of increment(): the server runs the script and increment()
\* resolves, or the command fails and increment() falls back to
\* incrementStandard
Eval(i) ==
    /\ calls[i].pc = "eval"
    /\ IF redis.mode = "ok"
          THEN \E r \in {LuaScript(redis.db, calls[i].key, cfg.windowMs, now)} :
                  /\ redis' = [redis EXCEPT !.db = r.db]
                  /\ calls' = [calls EXCEPT ![i] =
                        Incremented(i, r.reply[1], calls[i].at + r.reply[2] * 1000)]
          ELSE /\ calls' = [calls EXCEPT ![i] = [@ EXCEPT !.pc = "incr"]]
               /\ UNCHANGED redis
    /\ UNCHANGED <<cfg, peer, now, records, timestamps, tokenBuckets, cleanupTimer, clients, last,
                   hits, fresh, ticks>>

\* incrementStandard: await this.client.incr(fullKey); when it fails,
\* increment() is rejected and with it the promise check() returned
Incr(i) ==
    /\ calls[i].pc = "incr"
    /\ IF redis.mode = "down"
          THEN /\ calls' = [calls EXCEPT ![i] = [@ EXCEPT !.pc = "done", !.outcome = "rejected"]]
               /\ UNCHANGED redis
          ELSE \E r \in {RedisIncr(redis.db, calls[i].key, now)} :
                  /\ redis' = [redis EXCEPT !.db = r.db]
                  /\ calls' = [calls EXCEPT ![i] = [@ EXCEPT !.pc = "ttl", !.count = r.reply]]
    /\ UNCHANGED <<cfg, peer, now, records, timestamps, tokenBuckets, cleanupTimer, clients, last,
                   hits, fresh, ticks>>

\* a test that sets the expiry for the first increment only
NeedsExpireWhenFirst(count, ttl) == count = 1

\* incrementStandard: "Set expiration if this is a new key or TTL is negative"
NeedsExpire(count, ttl) == count = 1 \/ ttl < 0

\* incrementStandard: await this.client.ttl(fullKey), then the test of
\* count === 1 || ttl < 0
Ttl(i) ==
    /\ calls[i].pc = "ttl"
    /\ \E ttl \in {RedisTtl(redis.db, calls[i].key, now)} :
          calls' = [calls EXCEPT ![i] =
              IF NeedsExpire(calls[i].count, ttl)
                 THEN [@ EXCEPT !.pc = "expire", !.ttl = ttl]
                 ELSE Incremented(i, calls[i].count,
                                  calls[i].at + (IF ttl > 0 THEN ttl * 1000 ELSE cfg.windowMs))]
    /\ UNCHANGED <<cfg, peer, redis, now, records, timestamps, tokenBuckets, cleanupTimer, clients,
                   last, hits, fresh, ticks>>

\* incrementStandard: await this.client.expire(fullKey, Math.ceil(windowMs / 1000))
Expire(i) ==
    /\ calls[i].pc = "expire"
    /\ redis' = [redis EXCEPT !.db = RedisExpire(@, calls[i].key, CeilSeconds(cfg.windowMs), now)]
    /\ calls' = [calls EXCEPT ![i] = Incremented(i, calls[i].count, calls[i].at + cfg.windowMs)]
    /\ UNCHANGED <<cfg, peer, now, records, timestamps, tokenBuckets, cleanupTimer, clients, last,
                   hits, fresh, ticks>>

\* dispose() of RedisStorage closes the client whatever isExternalClient says
ClosesClientAlways(storage) == TRUE

\* the test of RedisStorage.dispose(): the client, a Bun RedisClient, has close()
ClosesClient(storage) == ~storage.isExternalClient

\* limiter.dispose() of an engine instance: RedisStorage.dispose(), then the
\* buckets go
RedisDispose ==
    /\ redis' = [redis EXCEPT !.closed = @ \/ ClosesClient(redis)]
    /\ tokenBuckets' = EmptyMap
    /\ last' = [NoCall EXCEPT !.op = "dispose"]
    /\ UNCHANGED <<cfg, peer, calls, now, records, timestamps, cleanupTimer, clients, hits,
                   fresh, ticks>>

\* the engine instances that share the server each make a check(), and
\* dispose()
NextRedis ==
    \/ RedisDispose
    \/ \E i \in CallIds : \E req \in Requests : StartCheck(i, req)
    \/ \E i \in CallIds : RedisResume(i)
    \/ \E i \in CallIds : Eval(i)
    \/ \E i \in CallIds : Incr(i)
    \/ \E i \in CallIds : Ttl(i)
    \/ \E i \in CallIds : Expire(i)
    \/ \E d \in TickSteps : Pause(d)

SpecRedis == InitRedis /\ [][NextRedis]_vars

\* the calls whose INCR the server has run
Counted == {i \in CallIds : calls[i].count > 0}

\* C14: RedisStorage under fixed-window: the counts returned to the calls
\* that the engine instances sharing the server have made for one key within
\* one window (the first since they were constructed) are pairwise distinct and are exactly 1..N, with the script
\* and with the fallback commands, and at most maxRequests of the calls are
\* allowed.
C14_DistinctCounts ==
    ( /\ cfg.algorithm = "fixed-window"
      /\ now < cfg.windowMs )
    => /\ \A i \in Counted : \A j \in Counted : i # j => calls[i].count # calls[j].count
       /\ {calls[i].count : i \in Counted} = 1..Cardinality(Counted)
       /\ Cardinality({i \in Completed : calls[i].outcome = "decided" /\ calls[i].result.allowed})
            <= cfg.maxRequests

\* with the fallback commands the instance that called last was counted
\* first: every instance has its answer, one allowed and the others denied
C14_Witness ==
    /\ cfg.algorithm = "fixed-window"
    /\ cfg.maxRequests = 1
    /\ redis.mode = "noscript"
    /\ Completed = CallIds
    /\ now < cfg.windowMs
    /\ calls[MaxInFlight].count = 1
    /\ calls[MaxInFlight].result.allowed
    /\ \A i \in CallIds \ {MaxInFlight} : ~calls[i].result.allowed

\* C15: sliding-window on a RedisStorage constructed with
\* enableSlidingWindow = false, its commands getting through: no check()
\* raises an error, and a check() that ran the algorithm returns the
\* fixed-window decision on the count that increment() returned.
C15_SlidingDegrades ==
    \A i \in Completed :
        (cfg.algorithm = "sliding-window" /\ redis.mode # "down")
        => /\ calls[i].outcome # "rejected"
           /\ calls[i].outcome = "decided"
                => /\ calls[i].result.current = calls[i].count
                   /\ calls[i].result.allowed = (calls[i].count <= cfg.maxRequests)

\* call i ran into storage.increment() and no command gets through
StorageFailed(i) ==
    /\ redis.mode = "down"
    /\ cfg.algorithm \in WindowAlgorithms
    /\ ReachesKeyGenerator(calls[i].req)
    /\ ~calls[i].req.keyError

\* C17: a check() whose storage.increment() fails returns allowed = true
\* when skipFailedRequests = true, and raises the error to its caller when
\* skipFailedRequests = false.
C17_FailurePolicy ==
    \A i \in Completed :
        StorageFailed(i)
        => IF cfg.skipFailedRequests
              THEN calls[i].outcome = "failopen" /\ calls[i].result.allowed
              ELSE calls[i].outcome = "rejected"

(***************************************************************************)
(* resetAll() and dispose()                                                *)
(***************************************************************************)
\* the RateLimitResult that a call for key gets now
NextResult(key) == Dispatch(cfg, records, timestamps, tokenBuckets, key, now).result

\* the RateLimitResult that a call for key gets now from an engine that was
\* never used
FreshResult(key) == Dispatch(cfg, EmptyMap, EmptyMap, EmptyMap, key, now).result

\* C21: when resetAll() has completed, the next check() for every key gets
\* what it gets for a never-used key (current = 1 under the window
\* algorithms, a full bucket under token-bucket), whether the key's window
\* has expired or not.
C21_ResetAllIsFresh ==
    last.op = "resetAll" => \A key \in clients : NextResult(key) = FreshResult(key)

\* C22: when dispose() has run on an engine with MemoryStorage, the cleanup
\* timer is cancelled, no token bucket, window record or timestamp log is
\* left, and a call for any key reports the count of a never-used key.
C22_DisposeDrops ==
    last.op = "dispose"
    => /\ ~cleanupTimer
       /\ tokenBuckets = EmptyMap
       /\ records = EmptyMap
       /\ timestamps = EmptyMap
       /\ \A key \in clients : NextResult(key).current = FreshResult(key).current

(* The instant resetTime *)
\* C23: under fixed-window with maxRequests >= 1, a call for a key made at
\* exactly the resetTime of the key's record starts a new window: it is
\* allowed and reports current = 1.
C23_NewWindowAtResetTime ==
    \A key \in DOMAIN records :
        (cfg.maxRequests >= 1 /\ now = records[key].resetTime)
        => (NextResult(key).allowed /\ NextResult(key).current = 1)

(***************************************************************************)
(* Two engines over one storage provider                                   *)
(***************************************************************************)
\* await peer.consume(key), peer being the second engine: its own
\* tokenBuckets, the storage of the first
PeerConsume(key) ==
    /\ \E out \in {Dispatch(cfg, records, timestamps, peer.tokenBuckets, key, now)} :
           /\ records' = out.records
           /\ timestamps' = out.timestamps
           /\ peer' = [tokenBuckets |-> out.tokenBuckets,
                       hits |-> [peer.hits EXCEPT ![key] = Append(@, out.result.allowed)]]
    /\ UNCHANGED <<cfg, calls, redis, now, tokenBuckets, cleanupTimer, clients, last, hits,
                   fresh, ticks>>

\* await storage.increment(key, windowMs) made by another user of the
\* storage provider
StorageIncrement(key) ==
    /\ key \notin DOMAIN records
    /\ \E out \in {MemoryIncrement(records, timestamps, key, cfg.windowMs, now)} :
           /\ records' = out.records
           /\ timestamps' = out.timestamps
    /\ UNCHANGED <<cfg, peer, calls, redis, now, tokenBuckets, cleanupTimer, clients, last,
                   hits, fresh, ticks>>

\* the calls that the second engine made, all keys together
PeerCallsMade == Cardinality({p \in Keys \X (1..MaxCalls) : p[2] <= Len(peer.hits[p[1]])})

\* the calls of the two engines, MaxCalls bounding them all together, one
\* use of the storage by another party, and the clock
NextShared ==
    \/ CallsMade + PeerCallsMade < MaxCalls /\ \E req \in Requests : Check(req)
    \/ CallsMade + PeerCallsMade < MaxCalls /\ \E key \in clients : Consume(key)
    \/ CallsMade + PeerCallsMade < MaxCalls /\ \E key \in clients : PeerConsume(key)
    \/ \E key \in clients : StorageIncrement(key)
    \/ \E d \in TickSteps : Pause(d)

InitShared == InitWith({o \in ShortOptions : o.algorithm = "token-bucket"}, {"k1"})

SpecShared == InitShared /\ [][NextShared]_vars

\* a call of either engine
EngineCall ==
    \/ \E req \in Requests : Check(req)
    \/ \E key \in clients : Consume(key) \/ PeerConsume(key)

\* what a call for key gets from an engine whose bucket map is bks, and the
\* bucket map afterwards, is what it gets over an empty storage
StorageUnread(bks, key) ==
    \E out \in {Dispatch(cfg, records, timestamps, bks, key, now)},
       alone \in {Dispatch(cfg, EmptyMap, EmptyMap, bks, key, now)} :
        /\ out.result = alone.result
        /\ out.tokenBuckets = alone.tokenBuckets

\* the calls told so far: the first capacity of them allowed, the rest denied
FirstCapacityAllowed(told) ==
    \A i \in 1..Len(told) : told[i] = (i <= cfg.maxRequests)

C24_Unread ==
    \A key \in clients :
        StorageUnread(tokenBuckets, key) /\ StorageUnread(peer.tokenBuckets, key)

C24_Admits ==
    ticks = 0 =>
        \A key \in clients :
            /\ FirstCapacityAllowed([i \in 1..Len(hits[key]) |-> hits[key][i].allowed])
            /\ FirstCapacityAllowed(peer.hits[key])

C25_ClientStaysOpen == ~redis.closed

\* dispose() has run on a storage whose server holds a counter
C25_Witness ==
    /\ last.op = "dispose"
    /\ redis.isExternalClient
    /\ ~redis.closed
    /\ redis.db # EmptyMap

(***************************************************************************)
(* What calls in flight together are told                                  *)
(***************************************************************************)
\* the smaller of two numbers
Min(a, b) == IF a <= b THEN a ELSE b

\* C26: MemoryStorage under a window algorithm with maxRequests >= 1: when
\* the k calls made for a fresh key, their awaits interleaved in any order,
\* have all returned within one window, the current values they report are
\* pairwise distinct and are exactly 1..k, and exactly min(k, maxRequests)
\* of the calls were allowed.
C26_OwnIncrement ==
    \A key \in clients :
        ( /\ cfg.algorithm \in WindowAlgorithms
          /\ cfg.maxRequests >= 1
          /\ AllWithinOneWindow(key) )
        => /\ \A i \in Completed : \A j \in Completed :
                 i # j => calls[i].result.current # calls[j].result.current
           /\ {calls[i].result.current : i \in Completed} = 1..Cardinality(Completed)
           /\ Cardinality({i \in Completed : calls[i].result.allowed})
                = Min(Cardinality(Completed), cfg.maxRequests)

(***************************************************************************)
(* The range of a bucket                                                   *)
(***************************************************************************)
\* C27: under token-bucket, draft or not, every bucket holds at least 0 and
\* at most capacity tokens, whatever calls, resets and clock advances there
\* were.
C27_TokensInRange ==
    cfg.algorithm = "token-bucket"
    => \A key \in DOMAIN tokenBuckets :
           /\ FCmp(tokenBuckets[key].tokens, FZero) >= 0
           /\ FCmp(tokenBuckets[key].tokens, FFromInt(cfg.capacity)) <= 0

\* a call was denied after a refill of less than one token: the bucket holds
\* a fraction of a token
C27_Witness ==
    /\ cfg.algorithm = "token-bucket"
    /\ last.op \in {"check", "consume"}
    /\ last.outcome = "decided"
    /\ ~last.result.allowed
    /\ last.key \in DOMAIN tokenBuckets
    /\ FCmp(tokenBuckets[last.key].tokens, FZero) > 0
    /\ FCmp(tokenBuckets[last.key].tokens, FOne) < 0

(***************************************************************************)
(* resetTime of the record that increment() returns                        *)
(***************************************************************************)
\* the options of RedisOptions with a window of half a second
HalfSecondOptions == {[o EXCEPT !.windowMs = 500] : o \in RedisOptions}

InitRedisHalfSecond == InitRedisWith(HalfSecondOptions)

SpecRedisHalfSecond == InitRedisHalfSecond /\ [][NextRedis]_vars

\* call i gets the record that its increment() created, from the script or
\* from the fallback commands
CreatesRecord(i) ==
    /\ calls[i].pc \in {"eval", "ttl", "expire"}
    /\ calls'[i].pc = "done"
    /\ calls'[i].outcome = "decided"
    /\ calls'[i].count = 1

\* C28: the record that RedisStorage.increment() returns to the call that
\* created it (count = 1) has resetTime strictly greater than the time that
\* increment() read from the clock, with a window of 500 ms as with any
\* window that the engine accepts.
C28_ResetAfterCreation ==
    [][\A i \in CallIds : CreatesRecord(i) => calls'[i].result.resetTime > calls[i].at]_vars

(***************************************************************************)
(* The expiry that the script gives a counter                              *)
(***************************************************************************)
\* every counter on the server has an expiry
C29_Expiring == \A key \in DOMAIN redis.db : redis.db[key].expireAt # -1

\* a step that changes the counter of a key either adds one to a live
\* counter and leaves its expiry, or starts the counter at 1 with an expiry
\* of windowMs from now
C29_Increment ==
    \A key \in DOMAIN redis'.db :
        (key \notin DOMAIN redis.db \/ redis'.db[key] # redis.db[key])
        => IF RedisLive(redis.db, key, now)
              THEN /\ redis'.db[key].count = redis.db[key].count + 1
                   /\ redis'.db[key].expireAt = redis.db[key].expireAt
              ELSE redis'.db[key] = [count |-> 1, expireAt |-> now + cfg.windowMs]

\* C29: RedisStorage with the script getting through, any number of engine
\* instances: no counter is ever without an expiry; an increment sets the
\* expiry, to windowMs, only when it starts the counter at 1, and an
\* increment of a live counter leaves the expiry as it was.
C29_AtomicExpiry ==
    /\ [](redis.mode = "ok" => C29_Expiring)
    /\ [][redis.mode = "ok" => C29_Increment]_vars

\* the script has run twice for k1, the second time one millisecond into
\* the window: the counter is 2 and still expires windowMs after the first
C29_Witness ==
    /\ redis.mode = "ok"
    /\ now = 1
    /\ "k1" \in DOMAIN redis.db
    /\ redis.db["k1"] = [count |-> 2, expireAt |-> cfg.windowMs]
    /\ \E i \in Completed : calls[i].count = 2 /\ calls[i].result.resetTime = 1001

(***************************************************************************)
(* RedisStorage with enableSlidingWindow = true: the sorted set of a key   *)
(* holds one member per distinct timestamp, member and score being the     *)
(* timestamp; zsets maps a key to its members and the time its expiry      *)
(* falls.                                                                  *)
(***************************************************************************)
\* ZADD key score member, the member being the score
ZAdd(zs, key, score, t) ==
    IF RedisLive(zs, key, t)
    THEN MapSet(zs, key, [zs[key] EXCEPT !.members = @ \cup {score}])
    ELSE MapSet(zs, key, [members |-> {score}, expireAt |-> -1])

\* ZREMRANGEBYSCORE key min max: a set left empty is deleted
ZRemRangeByScore(zs, key, min, max, t) ==
    IF ~RedisLive(zs, key, t) THEN zs
    ELSE LET left == {m \in zs[key].members : m < min \/ m > max}
         IN  IF left = {} THEN MapDelete(zs, key)
             ELSE MapSet(zs, key, [zs[key] EXCEPT !.members = left])

\* ZCARD key
ZCard(zs, key, t) == IF RedisLive(zs, key, t) THEN Cardinality(zs[key].members) ELSE 0

\* storage.increment(key, windowMs) up to its first await: it reads the
\* clock and turns to incrementSlidingWindow
StartIncrement(i, key) ==
    /\ redis.slidingWindowEnabled
    /\ calls[i].pc = "idle"
    /\ calls' = [calls EXCEPT ![i] = [@ EXCEPT !.pc = "zadd", !.op = "increment",
                                              !.key = key, !.at = now]]
    /\ UNCHANGED <<cfg, peer, redis, now, records, timestamps, tokenBuckets, cleanupTimer, clients,
                   last, hits, fresh, ticks>>

\* await ZADD; when the command fails, incrementStandard is tried, whose
\* INCR fails as well, and increment() is rejected
Zadd(i) ==
    /\ calls[i].pc = "zadd"
    /\ IF redis.mode = "down"
          THEN /\ calls' = [calls EXCEPT ![i] = [@ EXCEPT !.pc = "done", !.outcome = "rejected"]]
               /\ UNCHANGED redis
          ELSE /\ redis' = [redis EXCEPT !.zsets = ZAdd(@, calls[i].key, calls[i].at, now)]
               /\ calls' = [calls EXCEPT ![i] = [@ EXCEPT !.pc = "zremrangebyscore"]]
    /\ UNCHANGED <<cfg, peer, now, records, timestamps, tokenBuckets, cleanupTimer, clients, last,
                   hits, fresh, ticks>>

\* await ZREMRANGEBYSCORE windowKey 0 (now - windowMs)
Zremrangebyscore(i) ==
    /\ calls[i].pc = "zremrangebyscore"
    /\ redis' = [redis EXCEPT !.zsets =
                    ZRemRangeByScore(@, calls[i].key, 0, calls[i].at - cfg.windowMs, now)]
    /\ calls' = [calls EXCEPT ![i] = [@ EXCEPT !.pc = "zcard"]]
    /\ UNCHANGED <<cfg, peer, now, records, timestamps, tokenBuckets, cleanupTimer, clients, last,
                   hits, fresh, ticks>>

\* await ZCARD windowKey
Zcard(i) ==
    /\ calls[i].pc = "zcard"
    /\ calls' = [calls EXCEPT ![i] = [@ EXCEPT !.pc = "pexpire",
                                              !.count = ZCard(redis.zsets, calls[i].key, now)]]
    /\ UNCHANGED <<cfg, peer, redis, now, records, timestamps, tokenBuckets, cleanupTimer, clients,
                   last, hits, fresh, ticks>>

\* await PEXPIRE windowKey windowMs, then the return of count and resetTime
WindowPexpire(i) ==
    /\ calls[i].pc = "pexpire"
    /\ redis' = [redis EXCEPT !.zsets = RedisPexpire(@, calls[i].key, cfg.windowMs, now)]
    /\ calls' = [calls EXCEPT ![i] =
                    [@ EXCEPT !.pc = "done", !.outcome = "counted",
                              !.record = [count |-> calls[i].count,
                                          resetTime |-> calls[i].at + cfg.windowMs]]]
    /\ UNCHANGED <<cfg, peer, now, records, timestamps, tokenBuckets, cleanupTimer, clients, last,
                   hits, fresh, ticks>>

\* the engine instances that share the server each call increment()
NextRedisSliding ==
    \/ \E i \in CallIds : \E key \in clients : StartIncrement(i, key)
    \/ \E i \in CallIds : Zadd(i)
    \/ \E i \in CallIds : Zremrangebyscore(i)
    \/ \E i \in CallIds : Zcard(i)
    \/ \E i \in CallIds : WindowPexpire(i)
    \/ \E d \in TickSteps : Pause(d)

\* the state after new RedisStorage({client, enableSlidingWindow: true})
InitRedisSliding == InitRedisStorage(RedisOptions, TRUE)

SpecRedisSliding == InitRedisSliding /\ [][NextRedisSliding]_vars

\* the calls of increment() for key whose ZADD the server has run
Added(key) ==
    {j \in CallIds : /\ calls[j].key = key
                     /\ \/ calls[j].pc \in {"zremrangebyscore", "zcard", "pexpire"}
                        \/ calls[j].pc = "done" /\ calls[j].outcome = "counted"}

\* the ZADD of call i makes the set of its key one entry larger
C30_OneEntry(i) ==
    (calls[i].pc = "zadd" /\ calls'[i].pc = "zremrangebyscore")
    => ZCard(redis'.zsets, calls[i].key, now) = ZCard(redis.zsets, calls[i].key, now) + 1

\* the count that ZCARD gives call i is the number of the calls added for
\* its key with a timestamp in (at - windowMs, at], at being its own
C30_Count(i) ==
    (calls[i].pc = "zcard" /\ calls'[i].pc = "pexpire")
    => calls'[i].count =
          Cardinality({j \in Added(calls[i].key) :
                          /\ calls[j].at > calls[i].at - cfg.windowMs
                          /\ calls[j].at <= calls[i].at})

\* C30: RedisStorage with enableSlidingWindow = true: every increment() adds
\* exactly one entry to the sorted set of its key, and the count it returns
\* is the number of increment() calls made for the key, by any instance,
\* with timestamps in (now - windowMs, now], calls with the same millisecond
\* timestamp included.
C30_CountsEveryCall == [][\A i \in CallIds : C30_OneEntry(i) /\ C30_Count(i)]_vars

(***************************************************************************)
(* cleanExpired()                                                          *)
(***************************************************************************)
\* a step that runs cleanExpired(): the timer's callback, or resetAll()
Sweep == CleanupTimer \/ ResetAll

\* calls for a key, sweeps and the clock
NextSweep ==
    \/ \E key \in clients : Consume(key)
    \/ CleanupTimer
    \/ ResetAll
    \/ \E d \in TickSteps : Tick(d)

\* the engines that count in MemoryStorage, not in draft mode
InitSweep == InitWith({o \in OptionsOf(WindowAlgorithms) : ~o.draftMode}, {"k1"})

SpecSweep == InitSweep /\ [][NextSweep]_vars

\* the log of key in the map tss
LogOf(tss, key) == IF key \in DOMAIN tss THEN tss[key] ELSE <<>>

\* the sweep deletes exactly the records whose resetTime is before now, and
\* leaves the others as they are
C36_Records ==
    /\ DOMAIN records' = {k \in DOMAIN records : records[k].resetTime >= now}
    /\ \A k \in DOMAIN records' : records'[k] = records[k]

\* the sweep keeps every timestamp that is not more than RetentionMs old
C36_LogClaimed ==
    \A k \in DOMAIN timestamps :
        LET Kept(time) == now - time <= RetentionMs
        IN  LogOf(timestamps', k) = SelectSeq(timestamps[k], Kept)

\* the sweep keeps every timestamp that is less than RetentionMs old
C36_LogAmended ==
    \A k \in DOMAIN timestamps :
        LET Kept(time) == now - time < RetentionMs
        IN  LogOf(timestamps', k) = SelectSeq(timestamps[k], Kept)

SweptResult(key) ==
    Dispatch(cfg, CleanExpiredRecords(records, now), CleanExpiredTimestamps(timestamps, now),
             tokenBuckets, key, now).result

\* C37: in every reachable state a call for a key returns the same result,
\* and getSlidingWindowCount the same count, whether or not cleanExpired()
\* runs just before it.
C37_SweepTransparent ==
    \A key \in clients :
        /\ SweptResult(key) = NextResult(key)
        /\ MemorySlidingWindowCount(CleanExpiredTimestamps(timestamps, now), key,
                                    cfg.windowMs, now)
             = MemorySlidingWindowCount(timestamps, key, cfg.windowMs, now)

(***************************************************************************)
(* consume(key) and check(request)                                         *)
(***************************************************************************)
\* a request with the key generated for it, that skip does not accept
PlainRequest(key) == [key |-> key, skip |-> FALSE, keyError |-> FALSE]

\* check(request) and consume(key) made now give the same result and leave
\* the same records, timestamps and buckets
SameAsConsume(key) ==
    \E checked \in {CheckRequest(cfg, records, timestamps, tokenBuckets, PlainRequest(key), now)},
       consumed \in {Dispatch(cfg, records, timestamps, tokenBuckets, key, now)} :
        /\ checked.result = consumed.result
        /\ checked.records = consumed.records
        /\ checked.timestamps = consumed.timestamps
        /\ checked.tokenBuckets = consumed.tokenBuckets

\* C38: in every reachable state, for every algorithm, every maxRequests >= 0
\* and draft mode on or off, consume(key) returns the result and leaves the
\* state that check(request) does for a request with that key that is not
\* skipped.
C38_ConsumeIsCheck == \A key \in clients : SameAsConsume(key)

(***************************************************************************)
(* The burst at the boundary of two fixed windows                          *)
(***************************************************************************)
\* check() calls for a key, MaxBurst of them, and the clock
NextBurst ==
    \/ \E req \in Requests : CheckUpTo(req, MaxBurst)
    \/ \E d \in TickSteps : Tick(d)

InitBurst == InitWith({o \in OptionsOf({"fixed-window"}) : ~o.draftMode}, {"k1"})

SpecBurst == InitBurst /\ [][NextBurst]_vars

\* the calls for key that were allowed at a time in [from, from + length]
AllowedWithin(key, from, length) ==
    {j \in 1..Len(hits[key]) :
        /\ hits[key][j].allowed
        /\ hits[key][j].t >= from
        /\ hits[key][j].t <= from + length}

\* C32: fixed-window, not in draft mode, MemoryStorage: of the check() calls
\* made for a key, at most 2 * maxRequests were allowed within any interval
\* of windowMs milliseconds (an interval that holds the most calls begins
\* with a call).
C32_BoundedBurst ==
    \A key \in clients : \A i \in 1..Len(hits[key]) :
        Cardinality(AllowedWithin(key, hits[key][i].t, cfg.windowMs)) <= 2 * cfg.maxRequests

\* the burst: with maxRequests = 2, three calls were allowed within one
\* windowMs, the last call of one window and the first two of the next
C32_Witness ==
    /\ cfg.maxRequests = 2
    /\ Len(hits["k1"]) = 4
    /\ \A j \in 1..4 : hits["k1"][j].allowed
    /\ Cardinality(AllowedWithin("k1", hits["k1"][2].t, cfg.windowMs)) = 3

(***************************************************************************)
(* The rate that a token bucket lets through                               *)
(***************************************************************************)
\* the calls for key that were allowed at a time in [from, to]
AllowedBetween(key, from, to) ==
    {k \in 1..Len(hits[key]) :
        hits[key][k].allowed /\ hits[key][k].t >= from /\ hits[key][k].t <= to}

\* C33: token-bucket, not in draft mode: of the calls made for a key, the
\* number n allowed within an interval of L milliseconds is at most
\* capacity + L * maxRequests / windowMs, that is
\* (n - capacity) * windowMs <= L * maxRequests (an interval that holds the
\* most calls begins and ends with a call).
C33_RateBound ==
    (cfg.algorithm = "token-bucket" /\ ~cfg.draftMode)
    => \A key \in clients : \A i \in 1..Len(hits[key]) : \A j \in i..Len(hits[key]) :
           (Cardinality(AllowedBetween(key, hits[key][i].t, hits[key][j].t)) - cfg.capacity)
               * cfg.windowMs
             <= (hits[key][j].t - hits[key][i].t) * cfg.maxRequests

\* the bound is met: with capacity 1 a call was allowed, and the next one
\* exactly windowMs later
C33_Witness ==
    /\ cfg.algorithm = "token-bucket" /\ ~cfg.draftMode
    /\ cfg.capacity = 1
    /\ \E i \in 1..Len(hits["k1"]), j \in 1..Len(hits["k1"]) :
          /\ hits["k1"][j].t = hits["k1"][i].t + cfg.windowMs
          /\ Cardinality(AllowedBetween("k1", hits["k1"][i].t, hits["k1"][j].t)) = 2

(***************************************************************************)
(* A denied key that tries again                                           *)
(***************************************************************************)
\* check() calls for a key, MaxBurst of them, the sweep of the timer, and
\* the clock
NextRetry ==
    \/ \E req \in Requests : CheckUpTo(req, MaxBurst)
    \/ CleanupTimer
    \/ \E d \in TickSteps : Tick(d)

\* the engines that allow something, not in draft mode
InitRetry == InitWith({o \in Options : ~o.draftMode /\ o.maxRequests >= 1}, {"k1"})

SpecRetry == InitRetry /\ [][NextRetry]_vars

\* the j-th call for key is the first one made later than windowMs after
\* the i-th
FirstAfterWindow(key, i, j) ==
    /\ j > i
    /\ hits[key][j].t > hits[key][i].t + cfg.windowMs
    /\ \A k \in (i + 1)..(j - 1) : hits[key][k].t <= hits[key][i].t + cfg.windowMs

\* C34: MemoryStorage, maxRequests >= 1, not in draft mode, any algorithm:
\* when a check() for a key was denied at time t, then among the calls for
\* the key after it, up to and including the first one made later than
\* t + windowMs, at least one was allowed.
C34_NotBlockedForever ==
    \A key \in clients : \A i \in 1..Len(hits[key]) : \A j \in 1..Len(hits[key]) :
        (~hits[key][i].allowed /\ FirstAfterWindow(key, i, j))
        => \E k \in (i + 1)..j : hits[key][k].allowed

\* a call was denied, a retry inside the window was denied too, and the
\* first call after the window was allowed
C34_Witness ==
    /\ Len(hits["k1"]) = 4
    /\ ~hits["k1"][2].allowed
    /\ ~hits["k1"][3].allowed
    /\ hits["k1"][3].t > hits["k1"][2].t
    /\ FirstAfterWindow("k1", 2, 4)
    /\ hits["k1"][4].allowed

(***************************************************************************)
(* checkSlidingWindow over RedisStorage with enableSlidingWindow = true,   *)
(* one client calling again and again                                      *)
(***************************************************************************)
\* checkSlidingWindow(key) at time t, every command getting through:
\* incrementSlidingWindow, then getSlidingWindowCount
RedisCheckSlidingWindow(c, zs, key, t) ==
    LET added   == ZAdd(zs, key, t, t)
        trimmed == ZRemRangeByScore(added, key, 0, t - c.windowMs, t)
        expiry  == RedisPexpire(trimmed, key, c.windowMs, t)
        counted == ZRemRangeByScore(expiry, key, 0, t - c.windowMs, t)
    IN  [zsets |-> counted, result |-> SlidingWindowResult(c, ZCard(counted, key, t), t)]

\* await limiter.check(request) of an engine with maxRequests >= 1 and no
\* skip: with the server down increment() is rejected, and check() with it
RedisSlidingCheck(key) ==
    /\ redis.slidingWindowEnabled
    /\ Len(hits[key]) < MaxCalls
    /\ IF redis.mode = "down"
          THEN /\ last' = [op |-> "check", key |-> key, at |-> now, outcome |-> "rejected",
                           was |-> fresh[key], result |-> NoResult, count |-> 0]
               /\ UNCHANGED <<redis, hits, fresh>>
          ELSE \E out \in {RedisCheckSlidingWindow(cfg, redis.zsets, key, now)} :
                  /\ redis' = [redis EXCEPT !.zsets = out.zsets]
                  /\ last' = [op |-> "check", key |-> key, at |-> now, outcome |-> "decided",
                              was |-> fresh[key], result |-> out.result, count |-> 0]
                  /\ Decided(key, out.result)
    /\ UNCHANGED <<cfg, peer, calls, now, records, timestamps, tokenBuckets, cleanupTimer,
                   clients, ticks>>

\* the intervals at which the client calls again: two thirds of the window,
\* and more than the window
RetrySteps == {(2 * cfg.windowMs) \div 3, cfg.windowMs + 1}

NextRedisRetry ==
    \/ \E key \in clients : RedisSlidingCheck(key)
    \/ \E d \in RetrySteps : Tick(d)

InitRedisRetry ==
    InitRedisStorage({o \in RedisOptions : o.algorithm = "sliding-window" /\ o.maxRequests >= 1},
                     TRUE)

SpecRedisRetry == InitRedisRetry /\ [][NextRedisRetry]_vars

\* the calls for key were made one every d milliseconds
EverySo(key, d) ==
    \A k \in 1..(Len(hits[key]) - 1) : hits[key][k + 1].t = hits[key][k].t + d

\* C35: sliding-window over RedisStorage with enableSlidingWindow = true: a
\* key that calls every d milliseconds and was denied is allowed again, at
\* the latest by the call made windowMs or more after its first one (that
\* call and every later one find the same entries in their window, those
\* of the retries alone).
C35_RetryAllowed ==
    \A key \in clients : \A d \in RetrySteps : \A i \in 1..Len(hits[key]) :
        ( /\ EverySo(key, d)
          /\ ~hits[key][i].allowed
          /\ hits[key][Len(hits[key])].t >= hits[key][1].t + cfg.windowMs )
        => \E k \in (i + 1)..Len(hits[key]) : hits[key][k].allowed

(***************************************************************************)
(* The fallback commands and a client that stops                           *)
(***************************************************************************)
\* the increment() of call i resolves in this step
IncrementResolves(i) ==
    /\ calls'[i].pc = "done"
    /\ \/ calls[i].pc = "eval" /\ redis.mode = "ok"
       \/ calls[i].pc \in {"ttl", "expire"}

\* C39: RedisStorage, with the script or with INCR, TTL and EXPIRE sent one
\* by one: whenever an increment() resolves, the counter of its key, if the
\* key is still there, has an expiry, also when another client has stopped
\* between its INCR and its EXPIRE and left the counter without one.
C39_NextIncrementExpires ==
    [][\A i \in CallIds :
          (IncrementResolves(i) /\ RedisLive(redis'.db, calls[i].key, now))
          => redis'.db[calls[i].key].expireAt # -1]_vars

\* a client has stopped after its INCR, which started the counter, and
\* before its EXPIRE; the increment() of another one has resolved with
\* count 2, and the counter has an expiry
C39_Witness ==
    /\ redis.mode = "noscript"
    /\ \E i \in CallIds : calls[i].pc \in {"ttl", "expire"} /\ calls[i].count = 1
    /\ \E j \in Completed : calls[j].count = 2
    /\ RedisLive(redis.db, "k1", now)
    /\ redis.db["k1"].expireAt # -1

(***************************************************************************)
(* MemoryStorage.batchIncrement                                            *)
(***************************************************************************)
\* the lists of at most longest keys
KeyLists(longest) == UNION {[1..n -> Keys] : n \in 0..longest}

\* a batchIncrement() in flight, held in calls: keys its argument, at the
\* Date.now() of the increments made so far, results its Map, records0 and
\* timestamps0 the maps of the storage when it was called, made the
\* increments of all batches so far
IdleBatch == [pc |-> "idle", keys |-> <<>>, at |-> <<>>, results |-> EmptyMap,
              records0 |-> EmptyMap, timestamps0 |-> EmptyMap, made |-> 0]

\* results.set(key, result) keeping the entry a key already has
ResultsSetOnce(results, key, result) ==
    IF key \in DOMAIN results THEN results ELSE MapSet(results, key, result)

\* results.set(key, result)
ResultsSet(results, key, result) == MapSet(results, key, result)

\* batchIncrement(keys, windowMs) is called: const results = new Map()
BatchIncrement(keys) ==
    /\ calls.pc \in {"idle", "done"}
    /\ Len(keys) <= MaxCalls - calls.made
    /\ calls' = [pc |-> IF keys = <<>> THEN "done" ELSE "loop",
                 keys |-> keys, at |-> <<>>, results |-> EmptyMap,
                 records0 |-> records, timestamps0 |-> timestamps,
                 made |-> calls.made]
    /\ UNCHANGED <<cfg, peer, redis, now, records, timestamps, tokenBuckets, cleanupTimer, clients,
                   last, hits, fresh, ticks>>

\* one turn of the loop: const result = await this.increment(key, windowMs);
\* results.set(key, result); after the last key the Map is returned
BatchStep ==
    /\ calls.pc = "loop"
    /\ LET key == calls.keys[Len(calls.at) + 1]
       IN  \E inc \in {MemoryIncrement(records, timestamps, key, cfg.windowMs, now)} :
              /\ records' = inc.records
              /\ timestamps' = inc.timestamps
              /\ calls' = [calls EXCEPT
                              !.at = Append(@, now),
                              !.made = @ + 1,
                              !.results = ResultsSet(@, key, inc.result),
                              !.pc = IF Len(calls.at) + 1 = Len(calls.keys)
                                     THEN "done" ELSE "loop"]
    /\ UNCHANGED <<cfg, peer, redis, now, tokenBuckets, cleanupTimer, clients, last, hits, fresh, ticks>>

NextBatch ==
    \/ \E keys \in KeyLists(MaxCalls) : BatchIncrement(keys)
    \/ BatchStep
    \/ \E d \in TickSteps : Tick(d)

InitBatch ==
    /\ \E options \in {o \in OptionsOf({"fixed-window"}) : ~o.draftMode /\ o.maxRequests = 1} :
          /\ cfg = NewRateLimiter(options)
          /\ cleanupTimer = options.enableAutoCleanup
    /\ clients = Keys
    /\ now = 0
    /\ records = EmptyMap
    /\ timestamps = EmptyMap
    /\ tokenBuckets = EmptyMap
    /\ last = NoCall
    /\ hits = [k \in Keys |-> <<>>]
    /\ fresh = [k \in Keys |-> "never"]
    /\ ticks = 0
    /\ calls = IdleBatch
    /\ redis = NoRedis
    /\ peer = NoPeer

SpecBatch == InitBatch /\ [][NextBatch]_vars

\* increment(keys[n], windowMs) called at times[n], for n = 1, 2, ... in
\* order: the maps afterwards and the list of the records returned
RECURSIVE IncrementEach(_, _, _, _, _)
IncrementEach(recs, tss, keys, times, windowMs) ==
    IF keys = <<>>
    THEN [records |-> recs, timestamps |-> tss, results |-> <<>>]
    ELSE LET inc  == MemoryIncrement(recs, tss, Head(keys), windowMs, Head(times))
             rest == IncrementEach(inc.records, inc.timestamps, Tail(keys), Tail(times), windowMs)
         IN  [rest EXCEPT !.results = <<inc.result>> \o @]

\* the place of the last call made for key
LastCallFor(keys, key) ==
    CHOOSE n \in 1..Len(keys) : keys[n] = key /\ \A m \in (n + 1)..Len(keys) : keys[m] # key

KeysIn(keys) == {keys[n] : n \in 1..Len(keys)}

\* C40: MemoryStorage.batchIncrement(keys, windowMs), once it has returned,
\* has left the records and the logs as one increment(key, windowMs) per
\* element of keys in order leaves them, its Map holds for every key the
\* record the last of those calls for the key returns, and for distinct keys
\* without a record the Map has one entry per key, each with count 1.
C40_BatchIsSequence ==
    calls.pc = "done" =>
        LET each == IncrementEach(calls.records0, calls.timestamps0, calls.keys, calls.at,
                                  cfg.windowMs)
        IN  /\ records = each.records
            /\ timestamps = each.timestamps
            /\ DOMAIN calls.results = KeysIn(calls.keys)
            /\ \A key \in KeysIn(calls.keys) :
                  calls.results[key] = each.results[LastCallFor(calls.keys, key)]
            /\ ( /\ Cardinality(KeysIn(calls.keys)) = Len(calls.keys)
                 /\ KeysIn(calls.keys) \cap DOMAIN calls.records0 = {} )
               => /\ Cardinality(DOMAIN calls.results) = Len(calls.keys)
                  /\ \A key \in KeysIn(calls.keys) : calls.results[key].count = 1

\* a batch that names one key twice has returned, made when the storage held
\* a record, with the clock advancing inside the loop
C40_Witness ==
    /\ calls.pc = "done"
    /\ Len(calls.keys) = 2
    /\ calls.keys[1] = calls.keys[2]
    /\ calls.records0 # EmptyMap
    /\ calls.at[1] < calls.at[2]
    /\ calls.results[calls.keys[1]].count = 2

(***************************************************************************)
(* RedisStorage.batchIncrement                                             *)
(***************************************************************************)
\* where the processing of one key can fail: at one of its commands, which
\* then has no effect, or at the reply of the last one; "none" is no failure.
\* A failure of EXPIRE leaves what a failure of TTL leaves, and one of
\* PEXPIRE what one of ZCARD leaves.
FailPoints(sliding) ==
    IF sliding THEN {"none", "zadd", "zremrangebyscore", "zcard", "reply"}
               ELSE {"none", "incr", "ttl", "reply"}

\* clock advances offered while batches run: a third of the window
BatchTickSteps == {cfg.windowMs \div 3}

\* the catch block: results.set(key, {count: 1, resetTime: now + windowMs})
DefaultResult(windowMs, t0) == [count |-> 1, resetTime |-> t0 + windowMs]

\* the else branch of the loop body for key, run at time t by a batch that
\* read the clock at t0, failing at fail: INCR, TTL, EXPIRE when the test
\* asks for it, results.set()
BatchKeyStandard(db, key, windowMs, t0, t, fail) ==
    LET inc   == RedisIncr(db, key, t)
        ttl   == RedisTtl(inc.db, key, t)
        final == IF NeedsExpire(inc.reply, ttl)
                 THEN RedisExpire(inc.db, key, CeilSeconds(windowMs), t)
                 ELSE inc.db
    IN  CASE fail = "incr"   -> [store |-> db, result |-> DefaultResult(windowMs, t0)]
          [] fail = "ttl"    -> [store |-> inc.db, result |-> DefaultResult(windowMs, t0)]
          [] fail = "reply"  -> [store |-> final, result |-> DefaultResult(windowMs, t0)]
          [] OTHER           -> [store |-> final,
                                 result |-> [count |-> inc.reply,
                                             resetTime |-> t0 + (IF ttl > 0 THEN ttl * 1000
                                                                            ELSE windowMs)]]

\* the slidingWindowEnabled branch of the loop body: ZADD, ZREMRANGEBYSCORE,
\* ZCARD, PEXPIRE, results.set()
BatchKeySliding(zs, key, windowMs, t0, t, fail) ==
    LET added   == ZAdd(zs, key, t0, t)
        trimmed == ZRemRangeByScore(added, key, 0, t0 - windowMs, t)
        count   == ZCard(trimmed, key, t)
        final   == RedisPexpire(trimmed, key, windowMs, t)
    IN  CASE fail = "zadd"             -> [store |-> zs, result |-> DefaultResult(windowMs, t0)]
          [] fail = "zremrangebyscore" -> [store |-> added, result |-> DefaultResult(windowMs, t0)]
          [] fail = "zcard"            -> [store |-> trimmed, result |-> DefaultResult(windowMs, t0)]
          [] fail = "reply"            -> [store |-> final, result |-> DefaultResult(windowMs, t0)]
          [] OTHER                     -> [store |-> final,
                                           result |-> [count |-> count,
                                                       resetTime |-> t0 + windowMs]]

\* the loop body for key
BatchKey(r, key, windowMs, t0, t, fail) ==
    IF r.slidingWindowEnabled
    THEN LET out == BatchKeySliding(r.zsets, key, windowMs, t0, t, fail)
         IN  [redis |-> [r EXCEPT !.zsets = out.store], result |-> out.result]
    ELSE LET out == BatchKeyStandard(r.db, key, windowMs, t0, t, fail)
         IN  [redis |-> [r EXCEPT !.db = out.store], result |-> out.result]

\* a try around the whole loop: the first failure ends it
AfterKeyEnds(more, fail) == IF more /\ fail = "none" THEN "loop" ELSE "done"

\* the try is inside the loop: after a key, failed or not, the next one
AfterKey(more, fail) == IF more THEN "loop" ELSE "done"

\* a batchIncrement() of RedisStorage in flight, held in calls: now is the
\* clock read at the call, at the times the keys were processed, failed where
\* each failed, redis0 the server when the batch was called
IdleRedisBatch == [pc |-> "idle", keys |-> <<>>, now |-> 0, at |-> <<>>, failed |-> <<>>,
                   results |-> EmptyMap, redis0 |-> NoRedis, made |-> 0]

\* batchIncrement(keys, windowMs) is called: new Map(), const now = Date.now()
RedisBatchIncrement(keys) ==
    /\ calls.pc \in {"idle", "done"}
    /\ Len(keys) <= MaxCalls - calls.made
    /\ calls' = [pc |-> IF keys = <<>> THEN "done" ELSE "loop",
                 keys |-> keys, now |-> now, at |-> <<>>, failed |-> <<>>,
                 results |-> EmptyMap, redis0 |-> redis, made |-> calls.made]
    /\ UNCHANGED <<cfg, peer, redis, now, records, timestamps, tokenBuckets, cleanupTimer, clients,
                   last, hits, fresh, ticks>>

\* one turn of the loop, the try and its catch
RedisBatchStep(fail) ==
    /\ calls.pc = "loop"
    /\ LET key == calls.keys[Len(calls.at) + 1]
       IN  \E out \in {BatchKey(redis, key, cfg.windowMs, calls.now, now, fail)} :
              /\ redis' = out.redis
              /\ calls' = [calls EXCEPT
                              !.at = Append(@, now),
                              !.failed = Append(@, fail),
                              !.made = @ + 1,
                              !.results = MapSet(@, key, out.result),
                              !.pc = AfterKey(Len(calls.at) + 1 < Len(calls.keys), fail)]
    /\ UNCHANGED <<cfg, peer, now, records, timestamps, tokenBuckets, cleanupTimer, clients, last,
                   hits, fresh, ticks>>

NextRedisBatch ==
    \/ \E keys \in KeyLists(MaxCalls) : RedisBatchIncrement(keys)
    \/ \E fail \in FailPoints(redis.slidingWindowEnabled) : RedisBatchStep(fail)
    \/ \E d \in BatchTickSteps : Tick(d)

InitRedisBatch ==
    /\ \E options \in {o \in RedisOptions : /\ o.algorithm = "fixed-window"
                                            /\ o.maxRequests = 1
                                            /\ ~o.skipFailedRequests} :
          cfg = NewRateLimiter(options)
    /\ \E enableSlidingWindow \in BOOLEAN :
          \E storage \in {NewRedisStorage(TRUE, enableSlidingWindow)} :
              redis = [db |-> EmptyMap, zsets |-> EmptyMap, mode |-> "ok",
                       isExternalClient |-> storage.isExternalClient,
                       slidingWindowEnabled |-> storage.slidingWindowEnabled,
                       closed |-> FALSE]
    /\ cleanupTimer = FALSE
    /\ clients = Keys
    /\ now = 0
    /\ records = EmptyMap
    /\ timestamps = EmptyMap
    /\ tokenBuckets = EmptyMap
    /\ last = NoCall
    /\ hits = [k \in Keys |-> <<>>]
    /\ fresh = [k \in Keys |-> "never"]
    /\ ticks = 0
    /\ calls = IdleRedisBatch
    /\ peer = NoPeer

SpecRedisBatch == InitRedisBatch /\ [][NextRedisBatch]_vars

\* the places of keys where key stands
PlacesOf(keys, key) == {n \in 1..Len(keys) : keys[n] = key}

\* what the server holds for key: its counter and its sorted set
HeldFor(r, key) ==
    [ counter |-> IF key \in DOMAIN r.db THEN <<r.db[key]>> ELSE <<>>,
      window  |-> IF key \in DOMAIN r.zsets THEN <<r.zsets[key]>> ELSE <<>> ]

\* C31: RedisStorage.batchIncrement(keys, windowMs), once it has returned:
\* every key of keys has had its turn and its Map has an entry for each; a key whose processing
\* failed has {count: 1, resetTime: now + windowMs}, now read at the call;
\* and a key named once whose processing did not fail has the result, and
\* leaves on the server the counter or set, that it has when every other
\* key of the batch is left out. The call never ends by rejecting.
C31_EveryKeyAnswered ==
    /\ calls.pc \in {"idle", "loop", "done"}
    /\ calls.pc = "done" =>
          /\ Len(calls.at) = Len(calls.keys)
          /\ DOMAIN calls.results = KeysIn(calls.keys)
          /\ \A key \in KeysIn(calls.keys) :
                LET n == LastCallFor(calls.keys, key)
                IN  /\ calls.failed[n] # "none"
                       => calls.results[key] = DefaultResult(cfg.windowMs, calls.now)
                    /\ (calls.failed[n] = "none" /\ PlacesOf(calls.keys, key) = {n})
                       => LET alone == BatchKey(calls.redis0, key, cfg.windowMs, calls.now,
                                                calls.at[n], "none")
                          IN  /\ calls.results[key] = alone.result
                              /\ HeldFor(redis, key) = HeldFor(alone.redis, key)

\* a batch for two keys has returned whose first key failed after its INCR or
\* ZADD and whose second key was counted on top of an earlier batch
C31_Witness ==
    /\ calls.pc = "done"
    /\ Len(calls.keys) = 2
    /\ calls.keys[1] # calls.keys[2]
    /\ calls.failed[1] \in {"ttl", "zremrangebyscore"}
    /\ calls.failed[2] = "none"
    /\ calls.results[calls.keys[2]].count = 2

====
